---- MODULE Spec2Model ----
(***************************************************************************)
(* A model of the core of cannondb.                                        *)
(*                                                                         *)
(*  Part I   the B-tree: BTree / _BNode of btree.py, whose algorithms      *)
(*           (lateral, shrink, grow, split, insert, remove) are the ones   *)
(*           BNode of node.py runs on pairs.  Nodes live in a heap keyed   *)
(*           by object identity; lists keep Python's 0-based indices.      *)
(*  Part II  the write-ahead log of handler.py, byte by byte.              *)
(*  Part III the FileHandler of handler.py: cache, WAL, data file and      *)
(*           write transactions.                                           *)
(***************************************************************************)
EXTENDS Integers, Sequences, FiniteSets, TLC

VARIABLES
    \* ---- Part I: the B-tree
    order,      \* BTree._order
    impl,       \* "_BNode" (btree.py) or "BNode" (node.py)
    nodes,      \* heap: identity -> [keys, values, children]
    root,       \* BTree._root
    count,      \* BTree._count
    shadow,     \* ghost: key -> value last inserted and not removed, else Absent
    stepsOK,    \* ghost: every split/borrow/merge step of the last operation
                \*        left every node with 0 or |keys|+1 children
    steps,      \* ghost: the kinds of step the last operation ran
    ret         \* what the last operation returned or raised

VARIABLES
    \* ---- Part II: the write-ahead log
    wal,        \* the WAL object: [fd, disk, committed, not_committed, state]
                \*   fd            the bytes of the .cdb.wal file as the process sees them
                \*   disk          the bytes a kill of the process leaves in the file
                \*   committed     WAL._committed_pages, page -> offset of its image
                \*   not_committed WAL._not_committed_pages
                \*   state         "open", "killed", "recovered" (just reopened), "failed"
                \*                 (the constructor raised), "closed" (after checkpoint)
    durable,    \* ghost: page -> image, by the contract of commit and rollback
    pending,    \* ghost: page -> image set since the last commit or rollback
    written,    \* ghost: page -> image set since the last COMMIT frame
    lastOp      \* ghost: the last operation called on the WAL, and what it raised

VARIABLES
    \* ---- Part III: the FileHandler
    cache,      \* FileHandler._cache: [data, lru], page -> node and the LRU queue
    cache_size, \* the cache_size the handler was made with
    db,         \* the bytes of the .cdb data file
    auto_commit,\* FileHandler._auto_commit
    lock,       \* the writer lock: "free", "writer" inside a write transaction, or
                \* "checkpoint" inside the steps of perform_checkpoint
    hstate,     \* "open", "closed", "reopened" (just opened again)
    txnBegin,   \* ghost: what get_node returned for each page when the write
                \*        transaction began, and whether auto-commit was on
                \*        with nothing uncommitted
    batch,      \* ghost: page -> image set by transactions run with
                \*        auto-commit off and not yet followed by commit()
    promised    \* ghost: page -> image that commit() was called for after such
                \*        transactions, and that no later set_node replaced

VARIABLES
    \* ---- Part IV: threads on one FileHandler
    pc,         \* thread -> "idle", "writing", "releasing" or "reading"
    readers,    \* the threads that hold the reader lock
    everCommitted, \* ghost: page -> the images a WAL commit has made committed
    exitLog     \* ghost: what the last __exit__ of a write transaction did

treeVars == <<order, impl, nodes, root, count, shadow, stepsOK, steps, ret>>

walVars == <<wal, durable, pending, written, lastOp>>

handlerVars == <<cache, cache_size, db, auto_commit, lock, hstate, txnBegin, batch, promised>>

VARIABLES
    \* ---- Part V: a kill during the checkpoint
    dbDisk,     \* the bytes of the .cdb data file that outlive the process
    ckpt        \* where perform_checkpoint stands: [phase, todo, was, crashed]

VARIABLES
    \* ---- Part VI: deprecated pages
    page_GC     \* FileHandler._page_GC, the freelist

threadVars == <<pc, readers, everCommitted, exitLog>>

crashVars == <<dbDisk, ckpt>>

VARIABLES
    \* ---- Part VII: the CannonDB facade
    dcache,     \* CannonDB._cache
    is_closed,  \* CannonDB._closed
    sopen,      \* whether the storage under the facade is open
    cpc,        \* the position of the caller inside close()
    tpc,        \* the position of the thread of _timing_checkpoint
    dret        \* the outcome of the last call

VARIABLES
    \* ---- Part X: page allocation
    last_page,  \* FileHandler.last_page, the high-water counter
    aret        \* the last call on the allocator and the page it returned

VARIABLES
    \* ---- Part XI: reads after writes
    lastSet     \* ghost: page -> the image of the last set_node since a rollback

VARIABLES
    \* ---- Part XII: a kill during ensure_root_block
    erb         \* where ensure_root_block stands: [phase, old, new, kills]

VARIABLES
    \* ---- Part XIII: the page images of a node
    bn          \* a BNode: [page, contents, children, next_page, dumped, raised, last]

VARIABLES
    \* ---- Part XIV: LRUCache on its own
    lc          \* an LRUCache and the ghost record of its calls:
                \* [data, lru, capacity, seen, op, key, raised, value]

freeVars == <<page_GC>>

facadeVars == <<dcache, is_closed, sopen, cpc, tpc, dret>>

allocVars == <<last_page, aret>>

rywVars == <<lastSet>>

rootVars == <<erb>>

pgVars == <<bn>>

lruVars == <<lc>>

\* the variables of the parts after Part XIII
afterPg == <<lruVars>>

\* the variables of the parts after Part XII
afterRoot == <<pgVars, afterPg>>

\* the variables of the parts after Part XI
afterRyw == <<rootVars, afterRoot>>

\* the variables of the parts after Part X
afterAlloc == <<rywVars, afterRyw>>

\* the variables of the parts after Part VII
afterFacade == <<allocVars, afterAlloc>>

\* the variables of the parts after Part VI
afterFree == <<facadeVars, afterFacade>>

\* the variables of the parts after Part V
afterCrash == <<freeVars, afterFree>>

\* the variables of the parts after Part IV
afterThreads == <<crashVars, afterCrash>>

\* the variables of the parts after Part III
extVars == <<threadVars, afterThreads>>

vars == <<treeVars, walVars, handlerVars, extVars>>

----------------------------------------------------------------------------
(* Bounds of the model *)

MaxKey == 4         \* keys are 1..MaxKey
MaxCount == 5       \* inserts are cut off when _count reaches this
TallKey == 10       \* the keys of the runs that grow a tree of three levels

Keys == 1..MaxKey
Values == {101, 102}
TallKeys == 1..TallKey

PageSize == 16      \* tree_conf.page_size, in bytes
MaxPage == 2        \* the pages written are 1..MaxPage
MaxWalLen == 46     \* no frame is appended to a WAL file of this length or more
MaxHandlerWalLen == 34 \* the handler's WAL file grows no longer than this
Absent == 0         \* Python's None (the default of get)

----------------------------------------------------------------------------
(* Python lists, 0-based *)

PyIdx(s, i) == IF i < 0 THEN Len(s) + i ELSE i

PyAt(s, i) == s[PyIdx(s, i) + 1]

PySet(s, i, x) == [s EXCEPT ![PyIdx(s, i) + 1] = x]

\* s[a:b], the bounds clamped as Python clamps them
PySlice(s, a, b) ==
    LET lo == IF a < 0 THEN 0 ELSE a
        hi == IF b > Len(s) THEN Len(s) ELSE b
    IN IF lo >= hi THEN <<>> ELSE SubSeq(s, lo + 1, hi)

PyInsert(s, i, x) == PySlice(s, 0, i) \o <<x>> \o PySlice(s, i, Len(s))

PyPop(s, i) == PySlice(s, 0, PyIdx(s, i)) \o PySlice(s, PyIdx(s, i) + 1, Len(s))

RECURSIVE BisectLoop(_, _, _, _)
BisectLoop(a, x, lo, hi) ==
    IF lo < hi
    THEN LET mid == (lo + hi) \div 2
         IN IF a[mid + 1] < x THEN BisectLoop(a, x, mid + 1, hi)
                              ELSE BisectLoop(a, x, lo, mid)
    ELSE lo

BisectLeft(a, x) == BisectLoop(a, x, 0, Len(a))

----------------------------------------------------------------------------
(* Part I: _BNode (btree.py) / BNode (node.py)                             *)
(* The operators work on S = [nodes, root, ok, ev, stored]: the heap, the  *)
(* tree's root, the ghost flag of the child-count check after each step,   *)
(* the ghost set of the kinds of step taken, and for BNode the image of    *)
(* each node that handler.set_node was last given in this operation.       *)

Node(ks, vs, cs) == [keys |-> ks, values |-> vs, children |-> cs]

\* a new object
NewId(S) == CHOOSE i \in 1..(Cardinality(DOMAIN S.nodes) + 1) : i \notin DOMAIN S.nodes

\* the assertion of _BNode.__init__, as a predicate on a node
ChildCountOK(n) == n.children = <<>> \/ Len(n.keys) + 1 = Len(n.children)

\* ghost: record whether every node passes ChildCountOK after a step
Step(S) == [S EXCEPT !.ok = @ /\ \A i \in DOMAIN S.nodes : ChildCountOK(S.nodes[i])]

\* ghost: record the kind of step run on node self
Did(S, what, self) ==
    [S EXCEPT !.ev = @ \cup {<<what, IF S.nodes[self].children # <<>> THEN "branch" ELSE "leaf">>}]

\* self.tree.handler.set_node(node).  A _BNode has no handler.
HandOver(S, node) ==
    IF impl = "BNode" THEN [S EXCEPT !.stored = (node :> S.nodes[node]) @@ @] ELSE S

\* math.ceil(self.order / 2)
min_elements == (order + 1) \div 2

\* the mutant of Lateral: the donor keeps the child it lends
LateralKeepsChild(S, self, parent, parent_index, target, target_index) ==
    LET s == S.nodes[self]
        p == S.nodes[parent]
        t == S.nodes[target]
        branch == s.children # <<>>
        S0 == Did(S, "borrow", self)
    IN HandOver(HandOver(
       IF parent_index > target_index
       THEN Step([S0 EXCEPT !.nodes = [S.nodes EXCEPT
                ![target] = Node(Append(t.keys, PyAt(p.keys, target_index)),
                                 Append(t.values, PyAt(p.values, target_index)),
                                 IF branch THEN Append(t.children, PyAt(s.children, 0))
                                           ELSE t.children),
                ![parent] = Node(PySet(p.keys, target_index, PyAt(s.keys, 0)),
                                 PySet(p.values, target_index, PyAt(s.values, 0)),
                                 p.children),
                ![self] = Node(PyPop(s.keys, 0), PyPop(s.values, 0),
                               s.children)]])
       ELSE Step([S0 EXCEPT !.nodes = [S.nodes EXCEPT
                ![target] = Node(PyInsert(t.keys, 0, PyAt(p.keys, parent_index)),
                                 PyInsert(t.values, 0, PyAt(p.values, parent_index)),
                                 IF branch THEN PyInsert(t.children, 0, PyAt(s.children, -1))
                                           ELSE t.children),
                ![parent] = Node(PySet(p.keys, parent_index, PyAt(s.keys, -1)),
                                 PySet(p.values, parent_index, PyAt(s.values, -1)),
                                 p.children),
                ![self] = Node(PyPop(s.keys, -1), PyPop(s.values, -1),
                               s.children)]]),
       parent), target)

\* _BNode.lateral, BNode.lateral
Lateral(S, self, parent, parent_index, target, target_index) ==
    LET s == S.nodes[self]
        p == S.nodes[parent]
        t == S.nodes[target]
        branch == s.children # <<>>
        S0 == Did(S, "borrow", self)
    IN HandOver(HandOver(
       IF parent_index > target_index
       THEN Step([S0 EXCEPT !.nodes = [S.nodes EXCEPT
                ![target] = Node(Append(t.keys, PyAt(p.keys, target_index)),
                                 Append(t.values, PyAt(p.values, target_index)),
                                 IF branch THEN Append(t.children, PyAt(s.children, 0))
                                           ELSE t.children),
                ![parent] = Node(PySet(p.keys, target_index, PyAt(s.keys, 0)),
                                 PySet(p.values, target_index, PyAt(s.values, 0)),
                                 p.children),
                ![self] = Node(PyPop(s.keys, 0), PyPop(s.values, 0),
                               IF branch THEN PyPop(s.children, 0) ELSE s.children)]])
       ELSE Step([S0 EXCEPT !.nodes = [S.nodes EXCEPT
                ![target] = Node(PyInsert(t.keys, 0, PyAt(p.keys, parent_index)),
                                 PyInsert(t.values, 0, PyAt(p.values, parent_index)),
                                 IF branch THEN PyInsert(t.children, 0, PyAt(s.children, -1))
                                           ELSE t.children),
                ![parent] = Node(PySet(p.keys, parent_index, PyAt(s.keys, -1)),
                                 PySet(p.values, parent_index, PyAt(s.values, -1)),
                                 p.children),
                ![self] = Node(PyPop(s.keys, -1), PyPop(s.values, -1),
                               IF branch THEN PyPop(s.children, -1) ELSE s.children)]]),
       parent), target)

\* the mutant of Split for the halves: the sibling keeps the median pair
SplitKeepsMedian(S, self) ==
    LET s == S.nodes[self]
        center == Len(s.keys) \div 2
        sib == NewId(S)
        left == Node(PySlice(s.keys, 0, center), PySlice(s.values, 0, center),
                     PySlice(s.children, 0, center + 1))
        right == Node(PySlice(s.keys, center, Len(s.keys)),
                      PySlice(s.values, center, Len(s.values)),
                      PySlice(s.children, center + 1, Len(s.children)))
    IN [S |-> Step([Did(S, "split", self) EXCEPT
                      !.nodes = (self :> left) @@ (sib :> right) @@ S.nodes]),
        sibling |-> sib,
        mid_key |-> PyAt(s.keys, center),
        mid_val |-> PyAt(s.values, center)]

\* the mutant of Split for the shape: the new sibling gets no children
SplitDropsChildren(S, self) ==
    LET s == S.nodes[self]
        center == Len(s.keys) \div 2
        sib == NewId(S)
        left == Node(PySlice(s.keys, 0, center), PySlice(s.values, 0, center),
                     PySlice(s.children, 0, center + 1))
        right == Node(PySlice(s.keys, center + 1, Len(s.keys)),
                      PySlice(s.values, center + 1, Len(s.values)),
                      <<>>)
    IN [S |-> Step([Did(S, "split", self) EXCEPT
                      !.nodes = (self :> left) @@ (sib :> right) @@ S.nodes]),
        sibling |-> sib,
        mid_key |-> PyAt(s.keys, center),
        mid_val |-> PyAt(s.values, center)]

\* a split whose new sibling starts at children[center], not center + 1
SplitFromCenter(S, self) ==
    LET s == S.nodes[self]
        center == Len(s.keys) \div 2
        sib == NewId(S)
        left == Node(PySlice(s.keys, 0, center), PySlice(s.values, 0, center),
                     PySlice(s.children, 0, center + 1))
        right == Node(PySlice(s.keys, center + 1, Len(s.keys)),
                      PySlice(s.values, center + 1, Len(s.values)),
                      PySlice(s.children, center, Len(s.children)))
    IN [S |-> Step([Did(S, "split", self) EXCEPT
                      !.nodes = (self :> left) @@ (sib :> right) @@ S.nodes]),
        sibling |-> sib,
        mid_key |-> PyAt(s.keys, center),
        mid_val |-> PyAt(s.values, center)]

\* returns the heap with self cut down and the new sibling, and the median
Split(S, self) ==
    LET s == S.nodes[self]
        center == Len(s.keys) \div 2
        sib == NewId(S)
        left == Node(PySlice(s.keys, 0, center), PySlice(s.values, 0, center),
                     PySlice(s.children, 0, center + 1))
        right == Node(PySlice(s.keys, center + 1, Len(s.keys)),
                      PySlice(s.values, center + 1, Len(s.values)),
                      PySlice(s.children, center + 1, Len(s.children)))
    IN [S |-> Step([Did(S, "split", self) EXCEPT
                      !.nodes = (self :> left) @@ (sib :> right) @@ S.nodes]),
        sibling |-> sib,
        mid_key |-> PyAt(s.keys, center),
        mid_val |-> PyAt(s.values, center)]

RECURSIVE Shrink(_, _, _)
Shrink(S, self, ancestors) ==
    LET has == ancestors # <<>>
        parent == IF has THEN ancestors[Len(ancestors)][1] ELSE 0
        parent_index == IF has THEN ancestors[Len(ancestors)][2] ELSE 0
        rest == IF has THEN SubSeq(ancestors, 1, Len(ancestors) - 1) ELSE <<>>
        left_sib == PyAt(S.nodes[parent].children, parent_index - 1)
        right_sib == PyAt(S.nodes[parent].children, parent_index + 1)
    IN IF has /\ parent_index # 0 /\ Len(S.nodes[left_sib].keys) < order
       THEN Lateral(S, self, parent, parent_index, left_sib, parent_index - 1)
       ELSE IF has /\ parent_index + 1 < Len(S.nodes[parent].children)
                   /\ Len(S.nodes[right_sib].keys) < order
       THEN Lateral(S, self, parent, parent_index, right_sib, parent_index + 1)
       ELSE
         LET sp == Split(S, self)
             branch == NewId(sp.S)
             \* no parent: a new root above self
             S1 == IF has THEN sp.S
                   ELSE HandOver(Step([sp.S EXCEPT
                          !.nodes = (branch :> Node(<<>>, <<>>, <<self>>)) @@ sp.S.nodes,
                          !.root = branch]), branch)
             par == IF has THEN parent ELSE branch
             pn == S1.nodes[par]
             \* pass the median up to the parent
             S2 == Step([S1 EXCEPT !.nodes[par] =
                       Node(PyInsert(pn.keys, parent_index, sp.mid_key),
                            PyInsert(pn.values, parent_index, sp.mid_val),
                            PyInsert(pn.children, parent_index + 1, sp.sibling))])
         IN HandOver(HandOver(
              IF Len(S2.nodes[par].keys) > order THEN Shrink(S2, par, rest) ELSE S2,
              par), sp.sibling)

\* the value grow() appends with the separator key when it folds the right
\* sibling into self: btree.py line 118 appends parent.keys[parent_index],
\* node.py line 690 moves the whole pair
SeparatorValue(p, parent_index) ==
    IF impl = "_BNode" THEN PyAt(p.keys, parent_index) ELSE PyAt(p.values, parent_index)

RECURSIVE Grow(_, _, _)
Grow(S, self, ancestors) ==
    LET parent == ancestors[Len(ancestors)][1]
        parent_index == ancestors[Len(ancestors)][2]
        rest == SubSeq(ancestors, 1, Len(ancestors) - 1)
        p == S.nodes[parent]
        s == S.nodes[self]
        hasRight == parent_index + 1 < Len(p.children)
        hasLeft == parent_index # 0
        right_sib == PyAt(p.children, parent_index + 1)
        left_sib == PyAt(p.children, parent_index - 1)
    IN IF hasRight /\ Len(S.nodes[right_sib].keys) > min_elements
       THEN Lateral(S, right_sib, parent, parent_index + 1, self, parent_index)
       ELSE IF hasLeft /\ Len(S.nodes[left_sib].keys) > min_elements
       THEN Lateral(S, left_sib, parent, parent_index - 1, self, parent_index)
       ELSE
         LET l == S.nodes[left_sib]
             r == S.nodes[right_sib]
             \* consolidate with a sibling - try left first
             S0 == IF hasLeft
                   THEN Step([Did(S, "merge", left_sib) EXCEPT !.nodes = [S.nodes EXCEPT
                          ![left_sib] = Node(Append(l.keys, PyAt(p.keys, parent_index - 1)) \o s.keys,
                                             Append(l.values, PyAt(p.values, parent_index - 1)) \o s.values,
                                             l.children \o s.children),
                          ![parent] = Node(PyPop(p.keys, parent_index - 1),
                                           PyPop(p.values, parent_index - 1),
                                           PyPop(p.children, parent_index))]])
                   ELSE Step([Did(S, "merge", right_sib) EXCEPT !.nodes = [S.nodes EXCEPT
                          ![self] = Node(Append(s.keys, PyAt(p.keys, parent_index)) \o r.keys,
                                         Append(s.values, SeparatorValue(p, parent_index)) \o r.values,
                                         IF s.children # <<>> THEN s.children \o r.children
                                                              ELSE s.children),
                          ![parent] = Node(PyPop(p.keys, parent_index),
                                           PyPop(p.values, parent_index),
                                           PyPop(p.children, parent_index + 1))]])
             \* sync
             S1 == HandOver(HandOver(S0, IF hasLeft THEN left_sib ELSE self), parent)
         IN IF Len(S1.nodes[parent].keys) < min_elements
            THEN IF rest # <<>>
                 THEN Grow(S1, parent, rest)
                 ELSE IF S1.nodes[parent].keys = <<>>
                      THEN HandOver([S1 EXCEPT !.root = IF hasLeft THEN left_sib ELSE self],
                                    IF hasLeft THEN left_sib ELSE self)
                      ELSE S1
            ELSE S1

NodeInsert(S, self, index, key, value, ancestors) ==
    LET s == S.nodes[self]
        S1 == [S EXCEPT !.nodes[self] = Node(PyInsert(s.keys, index, key),
                                             PyInsert(s.values, index, value),
                                             s.children)]
    IN HandOver(IF Len(S1.nodes[self].keys) > order THEN Shrink(S1, self, ancestors) ELSE S1,
                self)

\* while descendant.children: additional_ancestors.append((descendant, 0)) ...
RECURSIVE DescendFirst(_, _, _)
DescendFirst(S, descendant, additional) ==
    LET d == S.nodes[descendant]
    IN IF d.children # <<>>
       THEN DescendFirst(S, PyAt(d.children, 0), Append(additional, <<descendant, 0>>))
       ELSE [node |-> descendant, ancestors |-> additional]

\* ... additional_ancestors.append((descendant, len(descendant.children) - 1))
RECURSIVE DescendLast(_, _, _)
DescendLast(S, descendant, additional) ==
    LET d == S.nodes[descendant]
    IN IF d.children # <<>>
       THEN DescendLast(S, PyAt(d.children, -1),
                        Append(additional, <<descendant, Len(d.children) - 1>>))
       ELSE [node |-> descendant, ancestors |-> additional]

RECURSIVE NodeRemove(_, _, _, _)
NodeRemove(S, self, index, ancestors) ==
    LET s == S.nodes[self]
    IN IF s.children # <<>>
       THEN \* try promoting from the right subtree first
            LET rt == DescendFirst(S, PyAt(s.children, index + 1), <<<<self, index + 1>>>>)
                rd == S.nodes[rt.node]
            IN IF Len(rd.keys) > min_elements
               THEN HandOver(HandOver(NodeRemove(
                       [S EXCEPT !.nodes[self] = Node(PySet(s.keys, index, PyAt(rd.keys, 0)),
                                                      PySet(s.values, index, PyAt(rd.values, 0)),
                                                      s.children)],
                       rt.node, 0, ancestors \o rt.ancestors), self), rt.node)
               ELSE \* fall back to the left child
                    LET lt == DescendLast(S, PyAt(s.children, index), <<<<self, index>>>>)
                        ld == S.nodes[lt.node]
                    IN HandOver(HandOver(NodeRemove(
                         [S EXCEPT !.nodes[self] = Node(PySet(s.keys, index, PyAt(ld.keys, -1)),
                                                        PySet(s.values, index, PyAt(ld.values, -1)),
                                                        s.children)],
                         lt.node, Len(ld.children) - 1, ancestors \o lt.ancestors),
                         self), lt.node)
       ELSE LET S1 == [S EXCEPT !.nodes[self] = Node(PyPop(s.keys, index),
                                                     PyPop(s.values, index), s.children)]
            IN HandOver(IF Len(S1.nodes[self].keys) < min_elements /\ ancestors # <<>>
                        THEN Grow(S1, self, ancestors)
                        ELSE S1,
                        self)

----------------------------------------------------------------------------
(* Part I: BTree (btree.py) *)

\* BTree._path_to: the (node, index) pairs from the root to the node that
\* holds key, or to the leaf where it belongs
RECURSIVE PathFrom(_, _, _, _)
PathFrom(S, current, key, ancestry) ==
    LET c == S.nodes[current]
        index == BisectLeft(c.keys, key)
    IN IF c.children # <<>>
       THEN IF index < Len(c.keys) /\ PyAt(c.keys, index) = key
            THEN Append(ancestry, <<current, index>>)
            ELSE PathFrom(S, PyAt(c.children, index), key, Append(ancestry, <<current, index>>))
       ELSE Append(ancestry, <<current, index>>)

PathTo(S, key) == PathFrom(S, S.root, key, <<>>)

\* BTree._present
Present(S, key, ancestors) ==
    LET last == S.nodes[ancestors[Len(ancestors)][1]]
        index == ancestors[Len(ancestors)][2]
    IN index < Len(last.keys) /\ PyAt(last.keys, index) = key

\* the loop of BTree.insert that walks on to a leaf
RECURSIVE WalkDown(_, _, _, _, _)
WalkDown(S, node, index, key, ancestors) ==
    IF S.nodes[node].children # <<>>
    THEN LET next == PyAt(S.nodes[node].children, index)
             i == BisectLeft(S.nodes[next].keys, key)
         IN WalkDown(S, next, i, key, Append(ancestors, <<next, i>>))
    ELSE ancestors

\* BTree.insert: [S, raised, counted]
TreeInsert(S, key, value, override) ==
    LET ancestors == PathTo(S, key)
        node == ancestors[Len(ancestors)][1]
        index == ancestors[Len(ancestors)][2]
    IN IF Present(S, key, ancestors)
       THEN IF ~override
            THEN [S |-> S, raised |-> "ValueError"]
            ELSE [S |-> [S EXCEPT !.nodes[node].values = PySet(@, index, value)],
                  raised |-> "none"]
       ELSE LET full == WalkDown(S, node, index, key, ancestors)
                leaf == full[Len(full)][1]
                at == full[Len(full)][2]
            IN [S |-> NodeInsert(S, leaf, at, key, value, SubSeq(full, 1, Len(full) - 1)),
                raised |-> "none"]

\* the mutant of TreeRemove: an absent key is passed over in silence
TreeRemoveSilent(S, key) ==
    LET ancestors == PathTo(S, key)
        node == ancestors[Len(ancestors)][1]
        index == ancestors[Len(ancestors)][2]
    IN IF Present(S, key, ancestors)
       THEN [S |-> NodeRemove(S, node, index, SubSeq(ancestors, 1, Len(ancestors) - 1)),
             raised |-> "none"]
       ELSE [S |-> S, raised |-> "none"]

\* BTree.remove
TreeRemove(S, key) ==
    LET ancestors == PathTo(S, key)
        node == ancestors[Len(ancestors)][1]
        index == ancestors[Len(ancestors)][2]
    IN IF Present(S, key, ancestors)
       THEN [S |-> NodeRemove(S, node, index, SubSeq(ancestors, 1, Len(ancestors) - 1)),
             raised |-> "none"]
       ELSE [S |-> S, raised |-> "ValueError"]

\* BTree.get (the generator's StopIteration reaches get, as on Python 3.5
\* and 3.6, the versions setup.py names)
TreeGet(S, key, default) ==
    LET ancestors == PathTo(S, key)
        node == ancestors[Len(ancestors)][1]
        index == ancestors[Len(ancestors)][2]
    IN IF Present(S, key, ancestors) THEN PyAt(S.nodes[node].values, index) ELSE default

\* zip(a, b)
Zip(a, b) ==
    [i \in 1..(IF Len(a) < Len(b) THEN Len(a) ELSE Len(b)) |-> <<a[i], b[i]>>]

\* BTree.__iter__: _recurse(node)
RECURSIVE Recurse(_, _), RecurseZip(_, _, _)
Recurse(S, node) ==
    LET n == S.nodes[node]
    IN IF n.children # <<>>
       THEN RecurseZip(S, Zip(n.children, Zip(n.keys, n.values)), 1)
              \o Recurse(S, PyAt(n.children, -1))
       ELSE Zip(n.keys, n.values)

RecurseZip(S, z, i) ==
    IF i > Len(z) THEN <<>>
    ELSE Recurse(S, z[i][1]) \o <<z[i][2]>> \o RecurseZip(S, z, i + 1)

TreeIter(S) == Recurse(S, S.root)

\* The objects reachable from _root, in preorder.  Python reclaims the rest,
\* and object identities are not observable: each operation's result is
\* taken up to renaming, the root first.
RECURSIVE Preorder(_, _), PreorderAll(_, _, _)
Preorder(n, id) == <<id>> \o PreorderAll(n, n[id].children, 1)

PreorderAll(n, cs, i) ==
    IF i > Len(cs) THEN <<>> ELSE Preorder(n, cs[i]) \o PreorderAll(n, cs, i + 1)

Canon(S) ==
    LET po == Preorder(S.nodes, S.root)
        new(id) == CHOOSE i \in 1..Len(po) : po[i] = id
    IN [nodes |-> [i \in 1..Len(po) |->
                     LET nd == S.nodes[po[i]]
                     IN Node(nd.keys, nd.values,
                             [j \in 1..Len(nd.children) |-> new(nd.children[j])])],
        root |-> 1,
        ok |-> S.ok,
        ev |-> S.ev]

----------------------------------------------------------------------------
(* Part II: files and integers as bytes (utils.py, int.to_bytes)          *)
(* A file is the sequence of its bytes; offsets count from 0.             *)

\* int.to_bytes(length, 'big')
RECURSIVE ToBytes(_, _)
ToBytes(n, length) ==
    IF length = 0 THEN <<>> ELSE Append(ToBytes(n \div 256, length - 1), n % 256)

\* int.from_bytes(data, 'big')
RECURSIVE FromBytes(_)
FromBytes(data) ==
    IF data = <<>> THEN 0
    ELSE FromBytes(SubSeq(data, 1, Len(data) - 1)) * 256 + data[Len(data)]

\* read_from_file: the bytes of [start, stop), or EndOfFileError
ReadFromFile(file, start, stop) ==
    IF stop <= Len(file)
    THEN [raised |-> "none", data |-> SubSeq(file, start + 1, stop)]
    ELSE [raised |-> "EndOfFileError", data |-> <<>>]

\* fd.seek(pos); write_to_file(fd, data)
WriteAt(file, pos, data) ==
    LET end == IF pos + Len(data) > Len(file) THEN pos + Len(data) ELSE Len(file)
    IN [i \in 1..end |-> IF i > pos /\ i <= pos + Len(data) THEN data[i - pos]
                         ELSE IF i <= Len(file) THEN file[i] ELSE 0]

\* a dict without key k
DictDel(d, k) == [x \in DOMAIN d \ {k} |-> d[x]]

----------------------------------------------------------------------------
(* Part II: WAL (handler.py)                                               *)
(* The operators work on a WAL object W, as the variable wal holds it.     *)

PAGE_LENGTH_LIMIT == 3
PAGE_ADDRESS_LIMIT == 4
FRAME_TYPE_LENGTH_LIMIT == 1
NODE_TYPE_LENGTH_LIMIT == 1
FRAME_HEADER_LENGTH == FRAME_TYPE_LENGTH_LIMIT + PAGE_ADDRESS_LIMIT

\* FrameType
PAGE == 1
COMMIT == 2
ROLLBACK == 3

\* _PageType
NORMAL_PAGE == 0
OVERFLOW_PAGE == 1
DEPRECATED_PAGE == 2

\* WAL._create_header: the file of a new WAL
WalHeader == ToBytes(PageSize, PAGE_LENGTH_LIMIT)

\* WAL._index_frame
IndexFrame(W, frame_type, page, page_start) ==
    IF frame_type = PAGE
    THEN [W EXCEPT !.not_committed = (page :> page_start) @@ @]
    ELSE IF frame_type = COMMIT
    THEN [W EXCEPT !.committed = W.not_committed @@ @, !.not_committed = <<>>]
    ELSE [W EXCEPT !.not_committed = <<>>]

\* WAL._load_next_frame, repeated until EndOfFileError (the loop of
\* _load_wal); pos is fd.tell().  FrameType(frame_type) raises ValueError
\* for a byte that is no frame type, and nothing catches it.
RECURSIVE LoadFrames(_, _)
LoadFrames(W, pos) ==
    LET stop == pos + FRAME_HEADER_LENGTH
        data == ReadFromFile(W.fd, pos, stop).data
        frame_type == FromBytes(SubSeq(data, 1, FRAME_TYPE_LENGTH_LIMIT))
        page == FromBytes(SubSeq(data, FRAME_TYPE_LENGTH_LIMIT + 1, FRAME_HEADER_LENGTH))
    IN IF ReadFromFile(W.fd, pos, stop).raised # "none"
       THEN [W |-> W, raised |-> "none"]
       ELSE IF frame_type \notin {PAGE, COMMIT, ROLLBACK}
       THEN [W |-> W, raised |-> "ValueError"]
       ELSE LoadFrames(IndexFrame(W, frame_type, page, stop),
                       IF frame_type = PAGE THEN stop + PageSize ELSE stop)

\* WAL._load_wal
LoadWal(W) ==
    LET header_data == ReadFromFile(W.fd, 0, PAGE_LENGTH_LIMIT)
    IN IF header_data.raised # "none"
       THEN [W |-> W, raised |-> "EndOfFileError"]
       ELSE IF FromBytes(header_data.data) # PageSize
       THEN [W |-> W, raised |-> "AssertionError"]
       ELSE LET r == LoadFrames(W, PAGE_LENGTH_LIMIT)
            IN [W |-> [r.W EXCEPT !.not_committed = <<>>], raised |-> r.raised]

\* WAL.__init__ on the bytes the .cdb.wal file holds
WalInit(file) ==
    LET W == [fd |-> file, disk |-> file, committed |-> <<>>, not_committed |-> <<>>,
              state |-> "open"]
    IN IF file = <<>>
       THEN [W |-> [W EXCEPT !.fd = WalHeader, !.disk = WalHeader], raised |-> "none"]
       ELSE LoadWal(W)

\* WAL._add_frame.  The file object buffers what it writes: the seek before
\* the write flushes the bytes written before, and f_sync flushes these.
AddFrame(W, frame_type, page, page_data) ==
    LET data == ToBytes(frame_type, FRAME_TYPE_LENGTH_LIMIT)
                  \o ToBytes(page, PAGE_ADDRESS_LIMIT)
                  \o (IF frame_type = PAGE THEN page_data ELSE <<>>)
        seek == IF page \in DOMAIN W.committed /\ frame_type = PAGE
                THEN W.committed[page] - FRAME_TYPE_LENGTH_LIMIT - PAGE_ADDRESS_LIMIT
                ELSE Len(W.fd)
        file == WriteAt(W.fd, seek, data)
        tell == seek + Len(data)
    IN IndexFrame([W EXCEPT !.fd = file,
                            !.disk = IF frame_type # PAGE THEN file ELSE W.fd],
                  frame_type, page, tell - PageSize)

\* WAL.set_page
WalSetPage(W, page, page_data) == AddFrame(W, PAGE, page, page_data)

\* WAL.commit
WalCommit(W) == IF W.not_committed # <<>> THEN AddFrame(W, COMMIT, 0, <<>>) ELSE W

\* WAL.rollback
WalRollback(W) == IF W.not_committed # <<>> THEN AddFrame(W, ROLLBACK, 0, <<>>) ELSE W

\* WAL.set_page_deprecated
WalSetPageDeprecated(W, dep_page, dep_page_data) ==
    IF dep_page \notin DOMAIN W.committed
    THEN [W |-> W, raised |-> "AssertionError"]
    ELSE LET page_start == W.committed[dep_page]
             seek_start == page_start - FRAME_TYPE_LENGTH_LIMIT - PAGE_ADDRESS_LIMIT
         IN [W |-> [W EXCEPT !.fd = WriteAt(W.fd, seek_start, dep_page_data),
                             !.disk = W.fd,
                             !.committed = DictDel(W.committed, dep_page)],
             raised |-> "none"]

\* WAL.get_page: b'' when no table holds the page
WalGetPage(W, page) ==
    LET page_start == IF page \in DOMAIN W.not_committed THEN W.not_committed[page]
                      ELSE IF page \in DOMAIN W.committed THEN W.committed[page]
                      ELSE 0
    IN IF page_start = 0
       THEN [raised |-> "none", data |-> <<>>]
       ELSE ReadFromFile(W.fd, page_start, page_start + PageSize)

\* WAL.checkpoint: the (page, page_data) pairs it yields
WalCheckpointPages(W) ==
    [page \in DOMAIN W.committed |->
        ReadFromFile(W.fd, W.committed[page], W.committed[page] + PageSize)]

----------------------------------------------------------------------------
(* Part III: FileHandler (handler.py) and its caches (utils.py)            *)
(* A node is the pair of its page and the bytes of its dump: the handler   *)
(* looks at the first byte only, the rest belongs to the node classes.     *)
(* The operators work on a handler H = [wal, cache, db].                   *)

KEY_LENGTH_LIMIT == 2
VALUE_LENGTH_LIMIT == 4

\* the TreeConf the handler is made with
TreeConf == [order |-> 2, page_size |-> PageSize, key_size |-> 2, value_size |-> 2]

\* None, where a node is expected
NoNode == [page |-> 0, data |-> <<>>]

\* BNode.dump, OverflowNode.dump
Dump(node) == node.data

\* BaseBNode.from_raw_data
FromRawData(page, data) ==
    LET node_type == FromBytes(SubSeq(data, 1, NODE_TYPE_LENGTH_LIMIT))
    IN IF node_type \in {NORMAL_PAGE, OVERFLOW_PAGE}
       THEN [raised |-> "none", node |-> [page |-> page, data |-> data]]
       ELSE [raised |-> "TypeError", node |-> NoNode]

\* LRUCache.__init__, FakeCache: a cache that holds nothing
NewCache == [data |-> <<>>, lru |-> <<>>]

\* LRUCache.refresh
Refresh(C, key) == [C EXCEPT !.lru = Append(SelectSeq(@, LAMBDA k : k # key), key)]

\* LRUCache.get, FakeCache.get
CacheGet(C, key) ==
    IF cache_size = 0
    THEN [cache |-> C, item |-> NoNode]
    ELSE [cache |-> Refresh(C, key),
          item |-> IF key \in DOMAIN C.data THEN C.data[key] ELSE NoNode]

\* LRUCache.__setitem__, FakeCache.__setitem__; a cache made without a
\* capacity has capacity nan, which no length exceeds
CacheSetItem(C, key, value) ==
    IF cache_size = 0
    THEN [cache |-> C, raised |-> "none"]
    ELSE LET C1 == Refresh([C EXCEPT !.data = (key :> value) @@ @], key)
             victim == Head(C1.lru)
             C2 == [C1 EXCEPT !.lru = Tail(@)]
         IN IF cache_size > 0 /\ Cardinality(DOMAIN C1.data) > cache_size
            THEN IF victim \in DOMAIN C2.data
                 THEN [cache |-> [C2 EXCEPT !.data = DictDel(@, victim)], raised |-> "none"]
                 ELSE [cache |-> C2, raised |-> "KeyError"]
            ELSE [cache |-> C1, raised |-> "none"]

\* LRUCache.clear, FakeCache.clear
CacheClear(C) == NewCache

\* FileHandler._read_page_data
ReadPageData(file, page) == ReadFromFile(file, page * PageSize, page * PageSize + PageSize)

\* the mutant of WritePageData: the page number taken as the offset
WritePageDataUnscaled(file, page, page_data) == WriteAt(file, page, page_data)

\* FileHandler._write_page_data
WritePageData(file, page, page_data) == WriteAt(file, page * PageSize, page_data)

\* FileHandler.set_meta_tree_conf: page 0 of the data file, written at once
SetMetaTreeConf(H, root_page) ==
    LET length == PAGE_ADDRESS_LIMIT + 1 + PAGE_LENGTH_LIMIT + KEY_LENGTH_LIMIT
                    + VALUE_LENGTH_LIMIT
        data == ToBytes(root_page, PAGE_ADDRESS_LIMIT)
                  \o ToBytes(TreeConf.order, 1)
                  \o ToBytes(TreeConf.page_size, PAGE_LENGTH_LIMIT)
                  \o ToBytes(TreeConf.key_size, KEY_LENGTH_LIMIT)
                  \o ToBytes(TreeConf.value_size, VALUE_LENGTH_LIMIT)
                  \o [i \in 1..(TreeConf.page_size - length) |-> 0]
    IN [H EXCEPT !.db = WritePageData(H.db, 0, data)]

\* FileHandler.set_node
HSetNode(H, node) ==
    LET c == CacheSetItem(H.cache, node.page, node)
    IN [wal |-> WalSetPage(H.wal, node.page, Dump(node)), cache |-> c.cache, db |-> H.db,
        raised |-> c.raised]

\* FileHandler.get_node
HGetNode(H, page) ==
    LET g == CacheGet(H.cache, page)
        w == WalGetPage(H.wal, page)
        d == IF w.data # <<>> THEN w ELSE ReadPageData(H.db, page)
        n == FromRawData(page, d.data)
        c == CacheSetItem(g.cache, page, n.node)
        fail(raised) == [wal |-> H.wal, cache |-> g.cache, db |-> H.db,
                         raised |-> raised, node |-> NoNode]
    IN IF g.item # NoNode
       THEN [wal |-> H.wal, cache |-> g.cache, db |-> H.db, raised |-> "none",
             node |-> g.item]
       ELSE IF w.raised # "none" THEN fail(w.raised)
       ELSE IF d.raised # "none" THEN fail(d.raised)
       ELSE IF n.raised # "none" THEN fail(n.raised)
       ELSE [wal |-> H.wal, cache |-> c.cache, db |-> H.db, raised |-> c.raised,
             node |-> IF c.raised = "none" THEN n.node ELSE NoNode]

\* FileHandler.commit
HCommit(H) == [H EXCEPT !.wal = WalCommit(@)]

\* FileHandler.ensure_root_block
HEnsureRootBlock(H, root_node) ==
    LET s == HSetNode(H, root_node)
        t == HCommit(SetMetaTreeConf([wal |-> s.wal, cache |-> s.cache, db |-> s.db],
                                     root_node.page))
    IN IF s.raised # "none" THEN s
       ELSE [wal |-> t.wal, cache |-> t.cache, db |-> t.db, raised |-> "none"]

\* WriteTransaction.__exit__
ExitTransaction(H, exc, auto) ==
    IF exc THEN [H EXCEPT !.wal = WalRollback(@), !.cache = CacheClear(@)]
    ELSE IF auto THEN [H EXCEPT !.wal = WalCommit(@)]
    ELSE H

\* the loop of perform_checkpoint: every yielded page written to the data file
RECURSIVE WritePages(_, _)
WritePages(file, pages) ==
    IF DOMAIN pages = {} THEN file
    ELSE LET page == CHOOSE p \in DOMAIN pages : \A q \in DOMAIN pages : p <= q
         IN WritePages(WritePageData(file, page, pages[page].data), DictDel(pages, page))

\* FileHandler.perform_checkpoint.  WAL.checkpoint closes the file of the WAL
\* and unlinks it, and keeps its tables; the commit at the exit of the
\* transaction writes to the WAL that self._wal then names.
PerformCheckpoint(H, reopen_wal, auto) ==
    LET file == WritePages(H.db, WalCheckpointPages(H.wal))
        closed == [H.wal EXCEPT !.fd = <<>>, !.disk = <<>>, !.state = "closed"]
        W == IF reopen_wal THEN WalInit(<<>>).W ELSE closed
    IN [wal |-> W, cache |-> H.cache, db |-> file,
        raised |-> IF auto /\ W.state = "closed" /\ W.not_committed # <<>>
                   THEN "ValueError" ELSE "none"]

----------------------------------------------------------------------------
(* Part I: the operations of BTree as actions *)

Tree == [nodes |-> nodes, root |-> root, ok |-> TRUE, ev |-> {}, stored |-> <<>>]

\* the orders and node classes a run is drawn from
Orders == {2, 3}
Impls == {"_BNode", "BNode"}

TreeInit ==
    /\ order \in Orders
    /\ impl \in Impls
    /\ nodes = (1 :> Node(<<>>, <<>>, <<>>))
    /\ root = 1
    /\ count = 0
    /\ shadow = [k \in Keys |-> Absent]
    /\ stepsOK = TRUE
    /\ steps = {}
    /\ ret = "none"

\* the runs that grow a tree of three levels: order 2, and, as in
\* test_btree.py, every key inserted once with itself as its value
TallInit ==
    /\ order = 2
    /\ impl \in Impls
    /\ nodes = (1 :> Node(<<>>, <<>>, <<>>))
    /\ root = 1
    /\ count = 0
    /\ shadow = [k \in TallKeys |-> Absent]
    /\ stepsOK = TRUE
    /\ steps = {}
    /\ ret = "none"

Insert(key, value, override) ==
    /\ LET r == TreeInsert(Tree, key, value, override)
           T == Canon(r.S)
       IN /\ nodes' = T.nodes
          /\ root' = T.root
          /\ stepsOK' = T.ok
          /\ steps' = T.ev
          /\ ret' = r.raised
          /\ count' = IF r.raised = "none" THEN count + 1 ELSE count
          /\ shadow' = IF r.raised = "none" THEN [shadow EXCEPT ![key] = value] ELSE shadow
    /\ UNCHANGED <<order, impl, walVars, handlerVars, extVars>>

Remove(key) ==
    /\ LET r == TreeRemove(Tree, key)
           T == Canon(r.S)
       IN /\ nodes' = T.nodes
          /\ root' = T.root
          /\ stepsOK' = T.ok
          /\ steps' = T.ev
          /\ ret' = r.raised
          /\ count' = IF r.raised = "none" THEN count - 1 ELSE count
          /\ shadow' = IF r.raised = "none" THEN [shadow EXCEPT ![key] = Absent] ELSE shadow
    /\ UNCHANGED <<order, impl, walVars, handlerVars, extVars>>

TreeNext ==
    \/ \E k \in Keys, v \in Values, o \in BOOLEAN : count < MaxCount /\ Insert(k, v, o)
    \/ \E k \in Keys : Remove(k)

TallNext ==
    \/ \E k \in TallKeys : Insert(k, k, FALSE)
    \/ \E k \in TallKeys : Remove(k)

----------------------------------------------------------------------------
(* Part II: the operations of WAL as actions *)

WalPages == 1..MaxPage

\* a page image: the byte of its _PageType, then its content
Image(page_type, mark) ==
    ToBytes(page_type, NODE_TYPE_LENGTH_LIMIT) \o [i \in 1..(PageSize - 1) |-> mark]

Images == {Image(NORMAL_PAGE, 1), Image(NORMAL_PAGE, 2), Image(OVERFLOW_PAGE, 1)}

\* a WAL that is not used: the tree of Part I runs in memory
WalIdle ==
    /\ wal = [fd |-> <<>>, disk |-> <<>>, committed |-> <<>>, not_committed |-> <<>>,
              state |-> "closed"]
    /\ durable = <<>>
    /\ pending = <<>>
    /\ written = <<>>
    /\ lastOp = <<"none", "none">>

\* WAL(file_name, page_size) when there is no .cdb.wal file
WalNew ==
    /\ wal = WalInit(<<>>).W
    /\ durable = <<>>
    /\ pending = <<>>
    /\ written = <<>>
    /\ lastOp = <<"none", "none">>

WalUsable == wal.state \in {"open", "recovered"}

SetPage(page, page_data) ==
    /\ WalUsable
    /\ Len(wal.fd) < MaxWalLen
    /\ wal' = [WalSetPage(wal, page, page_data) EXCEPT !.state = "open"]
    /\ pending' = (page :> page_data) @@ pending
    /\ written' = (page :> page_data) @@ written
    /\ lastOp' = <<"set_page", "none">>
    /\ UNCHANGED <<durable, treeVars, handlerVars, extVars>>

Commit ==
    /\ WalUsable
    /\ wal.not_committed = <<>> \/ Len(wal.fd) < MaxWalLen
    /\ wal' = [WalCommit(wal) EXCEPT !.state = "open"]
    /\ durable' = pending @@ durable
    /\ pending' = <<>>
    /\ written' = IF wal.not_committed # <<>> THEN <<>> ELSE written
    /\ lastOp' = <<"commit", "none">>
    /\ UNCHANGED <<treeVars, handlerVars, extVars>>

Rollback ==
    /\ WalUsable
    /\ wal.not_committed = <<>> \/ Len(wal.fd) < MaxWalLen
    /\ wal' = [WalRollback(wal) EXCEPT !.state = "open"]
    /\ pending' = <<>>
    /\ lastOp' = <<"rollback", "none">>
    /\ UNCHANGED <<durable, written, treeVars, handlerVars, extVars>>

SetPageDeprecated(dep_page) ==
    /\ WalUsable
    /\ LET r == WalSetPageDeprecated(wal, dep_page,
                                     ToBytes(DEPRECATED_PAGE, NODE_TYPE_LENGTH_LIMIT))
       IN /\ wal' = [r.W EXCEPT !.state = "open"]
          /\ durable' = IF r.raised = "none" THEN DictDel(durable, dep_page) ELSE durable
          /\ lastOp' = <<"set_page_deprecated", r.raised>>
    /\ UNCHANGED <<pending, written, treeVars, handlerVars, extVars>>

\* the process is killed: the tables are gone, and the file keeps the
\* bytes written, with or without those still in the buffer of the file
\* object
Kill ==
    /\ WalUsable
    /\ \E file \in {wal.fd, wal.disk} :
          wal' = [fd |-> file, disk |-> file, committed |-> <<>>, not_committed |-> <<>>,
                  state |-> "killed"]
    /\ UNCHANGED <<durable, pending, written, lastOp, treeVars, handlerVars, extVars>>

\* WAL(file_name, page_size) on the file the killed process left
Reopen ==
    /\ wal.state = "killed"
    /\ LET r == WalInit(wal.fd)
       IN wal' = [r.W EXCEPT !.state = IF r.raised = "none" THEN "recovered" ELSE "failed"]
    /\ pending' = <<>>
    /\ UNCHANGED <<durable, written, lastOp, treeVars, handlerVars, extVars>>

WalNext ==
    \/ \E p \in WalPages, d \in Images : SetPage(p, d)
    \/ Commit
    \/ Rollback
    \/ \E p \in WalPages : SetPageDeprecated(p)
    \/ Kill
    \/ Reopen

----------------------------------------------------------------------------
(* Part III: the operations of FileHandler as actions.  The engine runs    *)
(* set_node, get_node and ensure_root_block inside a write transaction;    *)
(* an exception that one of them raises leaves the transaction through     *)
(* its abnormal exit.  The ghosts of Part II stay as they are.             *)

\* the cache_size a handler is made with: no cache, or a cache of one node
CacheSizes == {0, 1}

\* the dumps of the nodes the engine sets
NodeImages == {Image(NORMAL_PAGE, 1), Image(NORMAL_PAGE, 2)}

NoTransaction == [clean |-> FALSE, view |-> <<>>]

HandlerState == [wal |-> wal, cache |-> cache, db |-> db]

\* what get_node(page) returns in this state
Visible(page) ==
    LET r == HGetNode(HandlerState, page)
    IN [raised |-> r.raised, data |-> r.node.data]

\* a handler that is not used
HandlerIdle ==
    /\ cache = NewCache
    /\ cache_size = 0
    /\ db = <<>>
    /\ auto_commit = TRUE
    /\ lock = "free"
    /\ hstate = "closed"
    /\ txnBegin = NoTransaction
    /\ batch = <<>>
    /\ promised = <<>>

\* FileHandler(file_name, tree_conf, cache_size) when there are no files
HandlerNew ==
    /\ cache = NewCache
    /\ cache_size \in CacheSizes
    /\ db = <<>>
    /\ auto_commit = TRUE
    /\ lock = "free"
    /\ hstate = "open"
    /\ txnBegin = NoTransaction
    /\ batch = <<>>
    /\ promised = <<>>

\* the WAL file stays within its bound
Fits(H) == Len(H.wal.fd) <= MaxHandlerWalLen

Takes(H) ==
    /\ wal' = H.wal
    /\ cache' = H.cache
    /\ db' = H.db

\* WriteTransaction.__enter__
BeginWrite ==
    /\ hstate # "closed"
    /\ lock = "free"
    /\ lock' = "writer"
    /\ hstate' = "open"
    /\ txnBegin' = [clean |-> auto_commit /\ wal.not_committed = <<>>,
                    view |-> [p \in WalPages |-> Visible(p)]]
    /\ UNCHANGED <<wal, cache, cache_size, db, auto_commit, batch, promised>>
    /\ UNCHANGED <<treeVars, durable, pending, written, lastOp, extVars>>

\* set_node(node) inside the transaction
SetNode(page, page_data) ==
    /\ lock = "writer"
    /\ Fits(HSetNode(HandlerState, [page |-> page, data |-> page_data]))
    /\ LET r == HSetNode(HandlerState, [page |-> page, data |-> page_data])
       IN IF r.raised = "none"
          THEN /\ Takes(r)
               /\ batch' = IF auto_commit THEN batch ELSE (page :> page_data) @@ batch
               /\ UNCHANGED <<lock, txnBegin>>
          ELSE /\ Takes(ExitTransaction([wal |-> r.wal, cache |-> r.cache, db |-> r.db],
                                        TRUE, auto_commit))
               /\ batch' = <<>>
               /\ lock' = "free"
               /\ txnBegin' = NoTransaction
    /\ promised' = DictDel(promised, page)
    /\ UNCHANGED <<cache_size, auto_commit, hstate>>
    /\ UNCHANGED <<treeVars, durable, pending, written, lastOp, extVars>>

\* get_node(page), by a reader or inside the transaction
GetNode(page) ==
    /\ hstate # "closed"
    /\ LET r == HGetNode(HandlerState, page)
       IN IF r.raised # "none" /\ lock = "writer"
          THEN /\ Takes(ExitTransaction([wal |-> r.wal, cache |-> r.cache, db |-> r.db],
                                        TRUE, auto_commit))
               /\ batch' = <<>>
               /\ lock' = "free"
               /\ txnBegin' = NoTransaction
          ELSE /\ Takes(r)
               /\ UNCHANGED <<batch, lock, txnBegin>>
    /\ hstate' = "open"
    /\ UNCHANGED <<cache_size, auto_commit, promised>>
    /\ UNCHANGED <<treeVars, durable, pending, written, lastOp, extVars>>

\* ensure_root_block(root) inside the transaction
EnsureRootBlock(page, page_data) ==
    /\ lock = "writer"
    /\ Fits(HEnsureRootBlock(HandlerState, [page |-> page, data |-> page_data]))
    /\ LET r == HEnsureRootBlock(HandlerState, [page |-> page, data |-> page_data])
       IN IF r.raised = "none"
          THEN /\ Takes(r)
               /\ batch' = IF auto_commit THEN batch ELSE (page :> page_data) @@ batch
               /\ UNCHANGED <<lock, txnBegin>>
          ELSE /\ Takes(ExitTransaction([wal |-> r.wal, cache |-> r.cache, db |-> r.db],
                                        TRUE, auto_commit))
               /\ batch' = <<>>
               /\ lock' = "free"
               /\ txnBegin' = NoTransaction
    /\ promised' = DictDel(promised, page)
    /\ UNCHANGED <<cache_size, auto_commit, hstate>>
    /\ UNCHANGED <<treeVars, durable, pending, written, lastOp, extVars>>

\* WriteTransaction.__exit__ without an exception
ExitNormal ==
    /\ lock = "writer"
    /\ Fits(ExitTransaction(HandlerState, FALSE, auto_commit))
    /\ Takes(ExitTransaction(HandlerState, FALSE, auto_commit))
    /\ lock' = "free"
    /\ txnBegin' = NoTransaction
    /\ UNCHANGED <<cache_size, auto_commit, hstate, batch, promised>>
    /\ UNCHANGED <<treeVars, durable, pending, written, lastOp, extVars>>

\* WriteTransaction.__exit__ with an exception of the engine
ExitAbnormal ==
    /\ lock = "writer"
    /\ Fits(ExitTransaction(HandlerState, TRUE, auto_commit))
    /\ Takes(ExitTransaction(HandlerState, TRUE, auto_commit))
    /\ lock' = "free"
    /\ batch' = <<>>
    /\ txnBegin' = NoTransaction
    /\ UNCHANGED <<cache_size, auto_commit, hstate, promised>>
    /\ UNCHANGED <<treeVars, durable, pending, written, lastOp, extVars>>

\* commit() of the database, which comes down to FileHandler.commit
HandlerCommit ==
    /\ hstate # "closed"
    /\ lock = "free"
    /\ Fits(HCommit(HandlerState))
    /\ Takes(HCommit(HandlerState))
    /\ promised' = batch @@ promised
    /\ batch' = <<>>
    /\ hstate' = "open"
    /\ UNCHANGED <<cache_size, auto_commit, lock, txnBegin>>
    /\ UNCHANGED <<treeVars, durable, pending, written, lastOp, extVars>>

\* set_auto_commit(auto) of the database, which comes down to
\* FileHandler._auto_commit
SetAutoCommit(auto) ==
    /\ hstate # "closed"
    /\ lock = "free"
    /\ auto_commit # auto
    /\ auto_commit' = auto
    /\ batch' = <<>>
    /\ hstate' = "open"
    /\ UNCHANGED <<wal, cache, cache_size, db, lock, txnBegin, promised>>
    /\ UNCHANGED <<treeVars, durable, pending, written, lastOp, extVars>>

\* checkpoint() of the database, called by the user and every few seconds
\* by the thread of _timing_checkpoint: perform_checkpoint(reopen_wal=True),
\* which takes the writer lock
Checkpoint ==
    /\ hstate # "closed"
    /\ lock = "free"
    /\ Takes(PerformCheckpoint(HandlerState, TRUE, auto_commit))
    /\ hstate' = "open"
    /\ UNCHANGED <<cache_size, auto_commit, lock, txnBegin, batch, promised>>
    /\ UNCHANGED <<treeVars, durable, pending, written, lastOp, extVars>>

\* FileHandler.close
Close ==
    /\ hstate # "closed"
    /\ lock = "free"
    /\ LET r == PerformCheckpoint(HandlerState, FALSE, auto_commit)
       IN /\ wal' = r.wal
          /\ db' = r.db
          /\ cache' = IF r.raised = "none" THEN CacheClear(r.cache) ELSE r.cache
    /\ hstate' = "closed"
    /\ batch' = <<>>
    /\ UNCHANGED <<cache_size, auto_commit, lock, txnBegin, promised>>
    /\ UNCHANGED <<treeVars, durable, pending, written, lastOp, extVars>>

\* FileHandler.__init__ on the files a closed handler left
Open ==
    /\ hstate = "closed"
    /\ wal' = WalInit(wal.fd).W
    /\ cache' = NewCache
    /\ auto_commit' = TRUE
    /\ hstate' = "reopened"
    /\ UNCHANGED <<cache_size, db, lock, txnBegin, batch, promised>>
    /\ UNCHANGED <<treeVars, durable, pending, written, lastOp, extVars>>

HandlerNext ==
    \/ BeginWrite
    \/ \E p \in WalPages, d \in NodeImages : SetNode(p, d)
    \/ \E p \in WalPages : GetNode(p)
    \/ \E p \in WalPages, d \in NodeImages : EnsureRootBlock(p, d)
    \/ ExitNormal
    \/ ExitAbnormal
    \/ HandlerCommit
    \/ \E auto \in BOOLEAN : SetAutoCommit(auto)
    \/ Checkpoint
    \/ Close
    \/ Open

----------------------------------------------------------------------------
(* Part IV: threads on one FileHandler.  Two user threads run read and     *)
(* write transactions and the timer thread of the database runs the        *)
(* checkpoint.  rwlock.RWLock is a package outside the repository: the     *)
(* model takes it as a lock that gives the writer lock to one thread when  *)
(* no thread holds either lock, and the reader lock when no thread holds   *)
(* the writer lock.  The lock variable of Part III is the writer lock.     *)

Users == {"t1", "t2"}
Threads == Users \cup {"timer"}

\* the pages the threads read and write
ThreadPages == {1}

\* writer_lock.acquire() returns
CanWrite == lock = "free" /\ readers = {}

\* reader_lock.acquire() returns
CanRead == lock = "free"

NoExit == [exc |-> FALSE, auto |-> FALSE, wal |-> <<>>, thread |-> "none",
           view |-> <<>>, wrote |-> {}]

\* no threads in use
ThreadsIdle ==
    /\ pc = [t \in Threads |-> "idle"]
    /\ readers = {}
    /\ everCommitted = [p \in ThreadPages |-> {}]
    /\ exitLog = NoExit

\* ghost: the images that are committed once WAL.commit has run on W
AfterCommit(E, W) ==
    [p \in ThreadPages |->
        IF p \in DOMAIN W.not_committed THEN E[p] \cup {WalGetPage(W, p).data} ELSE E[p]]

\* WriteTransaction.__enter__ by thread t
TWriteEnter(t) ==
    /\ pc[t] = "idle"
    /\ CanWrite
    /\ lock' = "writer"
    /\ pc' = [pc EXCEPT ![t] = "writing"]
    /\ exitLog' = [NoExit EXCEPT !.view = [p \in ThreadPages |-> Visible(p)]]
    /\ UNCHANGED <<wal, cache, cache_size, db, auto_commit, hstate, txnBegin, batch, promised>>
    /\ UNCHANGED <<readers, everCommitted>>
    /\ UNCHANGED <<treeVars, durable, pending, written, lastOp, afterThreads>>

\* set_node inside the write transaction of thread t
TSetNode(t, page, page_data) ==
    /\ pc[t] = "writing"
    /\ LET r == HSetNode(HandlerState, [page |-> page, data |-> page_data])
       IN /\ r.raised = "none"
          /\ Fits(r)
          /\ Takes(r)
    /\ exitLog' = [exitLog EXCEPT !.wrote = @ \cup {<<page, page_data>>}]
    /\ UNCHANGED <<cache_size, auto_commit, lock, hstate, txnBegin, batch, promised>>
    /\ UNCHANGED <<pc, readers, everCommitted>>
    /\ UNCHANGED <<treeVars, durable, pending, written, lastOp, afterThreads>>

\* WriteTransaction.__exit__ of thread t up to the release of the lock:
\* exc tells whether the block raised
TWriteExit(t, exc) ==
    /\ pc[t] = "writing"
    /\ Fits(ExitTransaction(HandlerState, exc, auto_commit))
    /\ Takes(ExitTransaction(HandlerState, exc, auto_commit))
    /\ pc' = [pc EXCEPT ![t] = "releasing"]
    /\ everCommitted' = IF ~exc /\ auto_commit THEN AfterCommit(everCommitted, wal)
                        ELSE everCommitted
    /\ exitLog' = [exitLog EXCEPT !.exc = exc, !.auto = auto_commit, !.wal = wal,
                                  !.thread = t]
    /\ UNCHANGED <<cache_size, auto_commit, lock, hstate, txnBegin, batch, promised>>
    /\ UNCHANGED readers
    /\ UNCHANGED <<treeVars, durable, pending, written, lastOp, afterThreads>>

\* perform_checkpoint(reopen_wal=True) of thread t, inside its write
\* transaction, up to the release of the lock
TCheckpoint(t) ==
    /\ pc[t] = "writing"
    /\ Takes(PerformCheckpoint(HandlerState, TRUE, auto_commit))
    /\ pc' = [pc EXCEPT ![t] = "releasing"]
    /\ UNCHANGED <<cache_size, auto_commit, lock, hstate, txnBegin, batch, promised>>
    /\ UNCHANGED <<readers, everCommitted, exitLog>>
    /\ UNCHANGED <<treeVars, durable, pending, written, lastOp, afterThreads>>

\* writer_lock.release(), the last statement of __exit__
TRelease(t) ==
    /\ pc[t] = "releasing"
    /\ lock' = "free"
    /\ pc' = [pc EXCEPT ![t] = "idle"]
    /\ exitLog' = NoExit
    /\ UNCHANGED <<wal, cache, cache_size, db, auto_commit, hstate, txnBegin, batch, promised>>
    /\ UNCHANGED <<readers, everCommitted>>
    /\ UNCHANGED <<treeVars, durable, pending, written, lastOp, afterThreads>>

\* the mutant of TReadEnter: a read transaction that does not wait for the
\* reader lock
TReadEnterUnlocked(t) ==
    /\ pc[t] = "idle"
    /\ readers' = readers \cup {t}
    /\ pc' = [pc EXCEPT ![t] = "reading"]
    /\ UNCHANGED <<everCommitted, exitLog>>
    /\ UNCHANGED <<treeVars, walVars, handlerVars, afterThreads>>

\* ReadTransaction.__enter__ by thread t
TReadEnter(t) ==
    /\ pc[t] = "idle"
    /\ CanRead
    /\ readers' = readers \cup {t}
    /\ pc' = [pc EXCEPT ![t] = "reading"]
    /\ UNCHANGED <<everCommitted, exitLog>>
    /\ UNCHANGED <<treeVars, walVars, handlerVars, afterThreads>>

\* get_node inside the read transaction of thread t; an exception leaves
\* the transaction
TGetNode(t, page) ==
    /\ pc[t] = "reading"
    /\ LET r == HGetNode(HandlerState, page)
       IN /\ Takes(r)
          /\ pc' = IF r.raised = "none" THEN pc ELSE [pc EXCEPT ![t] = "idle"]
          /\ readers' = IF r.raised = "none" THEN readers ELSE readers \ {t}
    /\ UNCHANGED <<cache_size, auto_commit, lock, hstate, txnBegin, batch, promised>>
    /\ UNCHANGED <<everCommitted, exitLog>>
    /\ UNCHANGED <<treeVars, durable, pending, written, lastOp, afterThreads>>

\* ReadTransaction.__exit__ of thread t
TReadExit(t) ==
    /\ pc[t] = "reading"
    /\ readers' = readers \ {t}
    /\ pc' = [pc EXCEPT ![t] = "idle"]
    /\ UNCHANGED <<everCommitted, exitLog>>
    /\ UNCHANGED <<treeVars, walVars, handlerVars, afterThreads>>

\* set_auto_commit(auto) of the database, by a thread outside a transaction
TSetAutoCommit(auto) ==
    /\ \E t \in Users : pc[t] = "idle"
    /\ auto_commit # auto
    /\ auto_commit' = auto
    /\ UNCHANGED <<wal, cache, cache_size, db, lock, hstate, txnBegin, batch, promised>>
    /\ UNCHANGED threadVars
    /\ UNCHANGED <<treeVars, durable, pending, written, lastOp, afterThreads>>

\* commit() of the database by a thread outside a transaction, while no
\* write transaction runs: FileHandler.commit
TCommit(t) ==
    /\ pc[t] = "idle"
    /\ lock = "free"
    /\ Fits(HCommit(HandlerState))
    /\ Takes(HCommit(HandlerState))
    /\ everCommitted' = AfterCommit(everCommitted, wal)
    /\ UNCHANGED <<cache_size, auto_commit, lock, hstate, txnBegin, batch, promised>>
    /\ UNCHANGED <<pc, readers, exitLog>>
    /\ UNCHANGED <<treeVars, durable, pending, written, lastOp, afterThreads>>

ThreadsNext ==
    \/ \E t \in Threads : TWriteEnter(t)
    \/ \E t \in Users, p \in ThreadPages, d \in NodeImages : TSetNode(t, p, d)
    \/ \E t \in Users, exc \in BOOLEAN : TWriteExit(t, exc)
    \/ TCheckpoint("timer")
    \/ \E t \in Threads : TRelease(t)
    \/ \E t \in Users : TReadEnter(t)
    \/ \E t \in Users, p \in ThreadPages : TGetNode(t, p)
    \/ \E t \in Users : TReadExit(t)
    \/ \E auto \in BOOLEAN : TSetAutoCommit(auto)
    \/ \E t \in Users : TCommit(t)

----------------------------------------------------------------------------
(* Part V: perform_checkpoint statement by statement, and a kill of the    *)
(* process between any two of them.  Both files are buffered file          *)
(* objects: a seek hands the bytes written before to the system, the       *)
(* bytes written after the last seek are in the buffer until a flush, and  *)
(* a kill loses the buffer.  The write transactions are those of Part III. *)

NoCheckpoint == [phase |-> "none", todo |-> {}, was |-> <<>>, crashed |-> FALSE]

\* no checkpoint in steps
CrashIdle ==
    /\ dbDisk = <<>>
    /\ ckpt = NoCheckpoint

\* perform_checkpoint enters its write transaction and WAL.checkpoint
\* starts: file_flush_and_sync of the WAL file
CkptBegin ==
    /\ hstate # "closed"
    /\ lock = "free"
    /\ ckpt.phase = "none"
    /\ lock' = "checkpoint"
    /\ hstate' = "open"
    /\ wal' = [wal EXCEPT !.disk = wal.fd]
    /\ ckpt' = [phase |-> "synced", todo |-> DOMAIN wal.committed,
                was |-> [p \in DOMAIN wal.committed |-> WalCheckpointPages(wal)[p].data],
                crashed |-> FALSE]
    /\ UNCHANGED <<cache, cache_size, db, auto_commit, txnBegin, batch, promised, dbDisk>>
    /\ UNCHANGED <<treeVars, durable, pending, written, lastOp, threadVars, afterCrash>>

\* one round of the loop: WAL.checkpoint yields a page, _write_page_data
\* seeks and writes it
CkptWritePage(page) ==
    /\ ckpt.phase = "synced"
    /\ page \in ckpt.todo
    /\ dbDisk' = db
    /\ db' = WritePageData(db, page, WalCheckpointPages(wal)[page].data)
    /\ ckpt' = [ckpt EXCEPT !.todo = @ \ {page}]
    /\ UNCHANGED <<wal, cache, cache_size, auto_commit, lock, hstate, txnBegin, batch, promised>>
    /\ UNCHANGED <<treeVars, durable, pending, written, lastOp, threadVars, afterCrash>>

\* the loop ends: WAL.checkpoint closes the WAL file and unlinks it
CkptUnlink ==
    /\ ckpt.phase = "synced"
    /\ ckpt.todo = {}
    /\ wal' = [wal EXCEPT !.fd = <<>>, !.disk = <<>>, !.state = "closed"]
    /\ ckpt' = [ckpt EXCEPT !.phase = "unlinked"]
    /\ UNCHANGED <<cache, cache_size, db, auto_commit, lock, hstate, txnBegin, batch, promised, dbDisk>>
    /\ UNCHANGED <<treeVars, durable, pending, written, lastOp, threadVars, afterCrash>>

\* file_flush_and_sync of the data file
CkptSync ==
    /\ ckpt.phase = "unlinked"
    /\ dbDisk' = db
    /\ ckpt' = [ckpt EXCEPT !.phase = "flushed"]
    /\ UNCHANGED <<wal, cache, cache_size, db, auto_commit, lock, hstate, txnBegin, batch, promised>>
    /\ UNCHANGED <<treeVars, durable, pending, written, lastOp, threadVars, afterCrash>>

\* the new WAL of reopen_wal=True and the exit of the write transaction
CkptEnd ==
    /\ ckpt.phase = "flushed"
    /\ wal' = WalCommit(WalInit(<<>>).W)
    /\ lock' = "free"
    /\ ckpt' = NoCheckpoint
    /\ UNCHANGED <<cache, cache_size, db, auto_commit, hstate, txnBegin, batch, promised, dbDisk>>
    /\ UNCHANGED <<treeVars, durable, pending, written, lastOp, threadVars, afterCrash>>

\* the process is killed during perform_checkpoint: the files keep what
\* the system was handed
CrashKill ==
    /\ ckpt.phase # "none"
    /\ wal' = [fd |-> wal.disk, disk |-> wal.disk, committed |-> <<>>, not_committed |-> <<>>,
               state |-> "killed"]
    /\ db' = dbDisk
    /\ cache' = NewCache
    /\ lock' = "free"
    /\ hstate' = "closed"
    /\ ckpt' = [ckpt EXCEPT !.phase = "none", !.todo = {}, !.crashed = TRUE]
    /\ UNCHANGED <<cache_size, auto_commit, txnBegin, batch, promised, dbDisk>>
    /\ UNCHANGED <<treeVars, durable, pending, written, lastOp, threadVars, afterCrash>>

\* FileHandler.__init__ on the files the killed process left
CrashOpen ==
    /\ wal.state = "killed"
    /\ LET r == WalInit(wal.fd)
       IN /\ wal' = [r.W EXCEPT !.state = IF r.raised = "none" THEN "open" ELSE "failed"]
          /\ hstate' = IF r.raised = "none" THEN "reopened" ELSE "closed"
    /\ cache' = NewCache
    /\ auto_commit' = TRUE
    /\ UNCHANGED <<cache_size, db, lock, txnBegin, batch, promised, crashVars>>
    /\ UNCHANGED <<treeVars, durable, pending, written, lastOp, threadVars, afterCrash>>

CrashNext ==
    \/ BeginWrite
    \/ \E p \in WalPages, d \in NodeImages : SetNode(p, d)
    \/ ExitNormal
    \/ ExitAbnormal
    \/ CkptBegin
    \/ \E p \in WalPages : CkptWritePage(p)
    \/ CkptUnlink
    \/ CkptSync
    \/ CkptEnd
    \/ CrashKill
    \/ CrashOpen

----------------------------------------------------------------------------
(* Part VI: deprecated pages.  get_node(page).set_as_deprecated() of an    *)
(* overflow node without a next page, inside a write transaction of        *)
(* Part III.                                                               *)

\* the freelist of a handler made on new files
FreeIdle == page_GC = <<>>

\* the pages in the sequence s
Elements(s) == {s[i] : i \in DOMAIN s}

\* LRUCache.__delitem__ under "if dep_page in self._cache"; a FakeCache has
\* no __contains__ and the test raises TypeError
CacheDiscard(C, key) ==
    IF cache_size = 0
    THEN [cache |-> C, raised |-> "TypeError"]
    ELSE IF key \in DOMAIN C.data
    THEN [cache |-> [data |-> DictDel(C.data, key),
                     lru |-> SelectSeq(C.lru, LAMBDA k : k # key)],
          raised |-> "none"]
    ELSE [cache |-> C, raised |-> "none"]

\* FileHandler.set_deprecated_data
HSetDeprecatedData(H, dep_page, dep_page_data, auto) ==
    LET c == CacheDiscard(H.cache, dep_page)
        w == WalSetPageDeprecated(H.wal, dep_page, dep_page_data)
    IN IF c.raised # "none"
       THEN [wal |-> H.wal, cache |-> c.cache, db |-> H.db, raised |-> c.raised]
       ELSE IF auto
       THEN [wal |-> w.W, cache |-> c.cache, db |-> H.db, raised |-> w.raised]
       ELSE [wal |-> H.wal, cache |-> c.cache, db |-> H.db, raised |-> "none"]

\* the mutant of CollectDeprecatedPage: the page appended to the freelist
CollectAtEnd(gc, page) == Append(gc, page)

\* FileHandler.collect_deprecated_page: bisect.insort_left
CollectDeprecatedPage(gc, page) ==
    LET n == Cardinality({i \in DOMAIN gc : gc[i] < page})
    IN SubSeq(gc, 1, n) \o <<page>> \o SubSeq(gc, n + 1, Len(gc))

\* get_node(page).set_as_deprecated() for an overflow node without a next
\* page; an exception leaves the transaction through its abnormal exit
SetAsDeprecated(page) ==
    /\ lock = "writer"
    /\ page \notin Elements(page_GC)
    /\ LET g == HGetNode(HandlerState, page)
           r == HSetDeprecatedData([wal |-> g.wal, cache |-> g.cache, db |-> g.db], page,
                                   ToBytes(DEPRECATED_PAGE, NODE_TYPE_LENGTH_LIMIT),
                                   auto_commit)
       IN /\ g.raised = "none"
          /\ FromBytes(SubSeq(g.node.data, 1, NODE_TYPE_LENGTH_LIMIT)) = OVERFLOW_PAGE
          /\ IF r.raised = "none"
             THEN /\ Takes(r)
                  /\ page_GC' = CollectDeprecatedPage(page_GC, page)
                  /\ UNCHANGED <<lock, txnBegin, batch>>
             ELSE /\ Fits(ExitTransaction([wal |-> r.wal, cache |-> r.cache, db |-> r.db],
                                          TRUE, auto_commit))
                  /\ Takes(ExitTransaction([wal |-> r.wal, cache |-> r.cache, db |-> r.db],
                                           TRUE, auto_commit))
                  /\ lock' = "free"
                  /\ txnBegin' = NoTransaction
                  /\ batch' = <<>>
                  /\ UNCHANGED page_GC
    /\ UNCHANGED <<cache_size, auto_commit, hstate, promised>>
    /\ UNCHANGED <<treeVars, durable, pending, written, lastOp, threadVars, crashVars,
                   afterFree>>

FreeNext ==
    \/ BeginWrite
    \/ \E p \in WalPages, d \in Images : SetNode(p, d)
    \/ \E p \in WalPages : SetAsDeprecated(p)
    \/ ExitNormal
    \/ \E auto \in BOOLEAN : SetAutoCommit(auto)
    \/ Checkpoint

----------------------------------------------------------------------------
(* Part VII: the CannonDB facade (database.py).  The storage between the   *)
(* facade and the tree forwards insert, remove and get to the tree of      *)
(* Part I, and refuses every call once it is closed.                       *)

\* the keys and the capacity of the facade's cache in the runs
DbKeys == 1..2
DbCacheSize == 1
DbMaxCount == 3

NoReturn == [op |-> "none", raised |-> "none", value |-> Absent]

\* a facade that is not used
FacadeIdle ==
    /\ dcache = NewCache
    /\ is_closed = FALSE
    /\ sopen = FALSE
    /\ cpc = "idle"
    /\ tpc = "none"
    /\ dret = NoReturn

\* CannonDB.__init__: the cache, the flag and the started thread
FacadeNew ==
    /\ dcache = NewCache
    /\ is_closed = FALSE
    /\ sopen = TRUE
    /\ cpc = "idle"
    /\ tpc = "check"
    /\ dret = NoReturn

\* LRUCache.__setitem__ with a capacity
LruSetItem(C, key, value, capacity) ==
    LET C1 == Refresh([C EXCEPT !.data = (key :> value) @@ @], key)
        victim == Head(C1.lru)
        C2 == [C1 EXCEPT !.lru = Tail(@)]
    IN IF Cardinality(DOMAIN C1.data) > capacity
       THEN IF victim \in DOMAIN C2.data
            THEN [C2 EXCEPT !.data = DictDel(@, victim)]
            ELSE C2
       ELSE C1

\* LRUCache.__delitem__
LruDelItem(C, key) ==
    [data |-> DictDel(C.data, key), lru |-> SelectSeq(C.lru, LAMBDA k : k # key)]

\* the storage's insert: [S, raised]
StorageInsert(S, key, value, override) ==
    IF sopen THEN TreeInsert(S, key, value, override)
    ELSE [S |-> S, raised |-> "DatabaseClosed"]

\* the storage's remove: [S, raised]
StorageRemove(S, key) ==
    IF sopen THEN TreeRemove(S, key) ELSE [S |-> S, raised |-> "DatabaseClosed"]

\* the storage's get: [raised, value]
StorageGet(S, key, default) ==
    IF sopen THEN [raised |-> "none", value |-> TreeGet(S, key, default)]
    ELSE [raised |-> "DatabaseClosed", value |-> Absent]

\* the storage's checkpoint and commit, which leave the tree as it is
StorageForward == IF sopen THEN "none" ELSE "DatabaseClosed"

\* the tree after a call of the storage
TreeBecomes(r, key, value, by) ==
    LET T == Canon(r.S)
    IN /\ nodes' = T.nodes
       /\ root' = T.root
       /\ stepsOK' = T.ok
       /\ steps' = T.ev
       /\ ret' = r.raised
       /\ count' = IF r.raised = "none" THEN count + by ELSE count
       /\ shadow' = IF r.raised = "none" THEN [shadow EXCEPT ![key] = value] ELSE shadow

\* CannonDB.insert
DbInsert(key, value, override) ==
    /\ cpc = "idle"
    /\ count < DbMaxCount
    /\ dcache' = LruSetItem(dcache, key, value, DbCacheSize)
    /\ LET r == StorageInsert(Tree, key, value, override)
       IN /\ TreeBecomes(r, key, value, 1)
          /\ dret' = [op |-> "insert", raised |-> r.raised, value |-> Absent]
    /\ UNCHANGED <<is_closed, sopen, cpc, tpc>>
    /\ UNCHANGED <<order, impl, walVars, handlerVars, threadVars, crashVars, freeVars,
                   afterFacade>>

\* CannonDB.remove
DbRemove(key) ==
    /\ cpc = "idle"
    /\ dcache' = IF key \in DOMAIN dcache.data THEN LruDelItem(dcache, key) ELSE dcache
    /\ LET r == StorageRemove(Tree, key)
       IN /\ TreeBecomes(r, key, Absent, -1)
          /\ dret' = [op |-> "remove", raised |-> r.raised, value |-> Absent]
    /\ UNCHANGED <<is_closed, sopen, cpc, tpc>>
    /\ UNCHANGED <<order, impl, walVars, handlerVars, threadVars, crashVars, freeVars,
                   afterFacade>>

\* CannonDB.get
DbGet(key) ==
    /\ cpc = "idle"
    /\ IF key \in DOMAIN dcache.data
       THEN /\ dcache' = Refresh(dcache, key)
            /\ dret' = [op |-> "get", raised |-> "none", value |-> dcache.data[key]]
       ELSE /\ dcache' = dcache
            /\ dret' = [op |-> "get", raised |-> StorageGet(Tree, key, Absent).raised,
                        value |-> StorageGet(Tree, key, Absent).value]
    /\ UNCHANGED <<is_closed, sopen, cpc, tpc>>
    /\ UNCHANGED <<treeVars, walVars, handlerVars, threadVars, crashVars, freeVars,
                   afterFacade>>

\* CannonDB.commit
DbCommit ==
    /\ cpc = "idle"
    /\ dret' = [op |-> "commit", raised |-> StorageForward, value |-> Absent]
    /\ UNCHANGED <<dcache, is_closed, sopen, cpc, tpc>>
    /\ UNCHANGED <<treeVars, walVars, handlerVars, threadVars, crashVars, freeVars,
                   afterFacade>>

\* CannonDB.checkpoint, called by the user
DbCheckpoint ==
    /\ cpc = "idle"
    /\ dret' = [op |-> "checkpoint", raised |-> StorageForward, value |-> Absent]
    /\ UNCHANGED <<dcache, is_closed, sopen, cpc, tpc>>
    /\ UNCHANGED <<treeVars, walVars, handlerVars, threadVars, crashVars, freeVars,
                   afterFacade>>

\* CannonDB.close up to self._storage.close()
DbCloseStorage ==
    /\ cpc = "idle"
    /\ ~is_closed
    /\ sopen' = FALSE
    /\ cpc' = "closing"
    /\ UNCHANGED <<dcache, is_closed, tpc, dret>>
    /\ UNCHANGED <<treeVars, walVars, handlerVars, threadVars, crashVars, freeVars,
                   afterFacade>>

\* CannonDB.close from self._closed = True: _checkpoint_th holds what
\* Thread.start() returned, which is None, and join() raises AttributeError
DbCloseFlag ==
    /\ cpc = "closing"
    /\ is_closed' = TRUE
    /\ cpc' = "idle"
    /\ dret' = [op |-> "close", raised |-> "AttributeError", value |-> Absent]
    /\ UNCHANGED <<dcache, sopen, tpc>>
    /\ UNCHANGED <<treeVars, walVars, handlerVars, threadVars, crashVars, freeVars,
                   afterFacade>>

\* _timing_checkpoint: while not self._closed
TimerCheck ==
    /\ tpc = "check"
    /\ tpc' = IF is_closed THEN "done" ELSE "sleep"
    /\ UNCHANGED <<dcache, is_closed, sopen, cpc, dret>>
    /\ UNCHANGED <<treeVars, walVars, handlerVars, threadVars, crashVars, freeVars,
                   afterFacade>>

\* _timing_checkpoint: time.sleep(secs) is over; self.checkpoint(), whose
\* exception ends the thread
TimerFire ==
    /\ tpc = "sleep"
    /\ tpc' = IF StorageForward = "none" THEN "check" ELSE "dead"
    /\ UNCHANGED <<dcache, is_closed, sopen, cpc, dret>>
    /\ UNCHANGED <<treeVars, walVars, handlerVars, threadVars, crashVars, freeVars,
                   afterFacade>>

FacadeNext ==
    \/ \E k \in DbKeys, v \in Values, o \in BOOLEAN : DbInsert(k, v, o)
    \/ \E k \in DbKeys : DbRemove(k)
    \/ \E k \in DbKeys : DbGet(k)
    \/ DbCommit
    \/ DbCheckpoint
    \/ DbCloseStorage
    \/ DbCloseFlag
    \/ TimerCheck
    \/ TimerFire

----------------------------------------------------------------------------
(* Part VIII: one lateral call on a parent and two neighbouring children   *)
(* (btree.py _BNode.lateral, node.py BNode.lateral)                        *)

\* the sizes of the families that lateral is run on
LatParentKeys == 2     \* the parent holds up to this many pairs
LatChildKeys == 3      \* a child holds up to this many pairs

\* the pair j of the node id: a key no other node holds, and its value
LatKey(id, j) == id * 10 + j

\* the child i (from 0) of the parent, and its child j (from 0)
LatChild(i) == 2 + i

LatGrandChild(i, j) == 10 + i * 5 + j

\* a node with n pairs of its own
LatNode(id, n, cs) ==
    Node([j \in 1..n |-> LatKey(id, j)], [j \in 1..n |-> LatKey(id, j) + 100], cs)

\* a parent of m pairs over m + 1 children, the child i holding cnt[i + 1]
\* pairs; the children are leaves, or branches over leaves of one pair
LatFamily(m, cnt, branch) ==
    LET kids == 0..m
        grand == {<<i, j>> \in kids \X (0..LatChildKeys) : branch /\ j <= cnt[i + 1]}
        ids == {1} \cup {LatChild(i) : i \in kids}
                   \cup {LatGrandChild(g[1], g[2]) : g \in grand}
    IN [id \in ids |->
          IF id = 1 THEN LatNode(1, m, [i \in 1..(m + 1) |-> LatChild(i - 1)])
          ELSE IF id < 10
          THEN LatNode(id, cnt[id - 1],
                       IF branch
                       THEN [j \in 1..(cnt[id - 1] + 1) |-> LatGrandChild(id - 2, j - 1)]
                       ELSE <<>>)
          ELSE LatNode(id, 1, <<>>)]

LateralInit ==
    /\ order \in Orders
    /\ impl \in Impls
    /\ \E m \in 1..LatParentKeys, branch \in BOOLEAN :
         \E cnt \in [1..(m + 1) -> 0..LatChildKeys] :
             nodes = LatFamily(m, cnt, branch)
    /\ root = 1
    /\ count = 0
    /\ shadow = <<>>
    /\ stepsOK = TRUE
    /\ steps = {}
    /\ ret = "none"

\* self.lateral(parent, parent_index, target, target_index) as shrink calls
\* it (self has more than order pairs, the sibling fewer than order) and
\* as grow calls it on a sibling (which has more than min_elements pairs)
LateralCall(parent_index, target_index) ==
    /\ parent_index \in 0..(Len(nodes[root].children) - 1)
    /\ target_index \in 0..(Len(nodes[root].children) - 1)
    /\ target_index = parent_index + 1 \/ target_index = parent_index - 1
    /\ LET self == PyAt(nodes[root].children, parent_index)
           target == PyAt(nodes[root].children, target_index)
           S == Lateral(Tree, self, root, parent_index, target, target_index)
       IN /\ \/ Len(nodes[self].keys) > order /\ Len(nodes[target].keys) < order
             \/ Len(nodes[self].keys) > min_elements
          /\ nodes' = S.nodes
          /\ stepsOK' = S.ok
          /\ steps' = S.ev
    /\ UNCHANGED <<order, impl, root, count, shadow, ret>>
    /\ UNCHANGED <<walVars, handlerVars, extVars>>

LateralNext == \E pi \in 0..LatParentKeys, ti \in 0..LatParentKeys : LateralCall(pi, ti)

----------------------------------------------------------------------------
(* Part IX: split on a node of any size (btree.py _BNode.split, node.py    *)
(* BNode.split)                                                            *)

SplitKeys == 5      \* the node that is split first holds up to this many pairs
SplitNodes == 12    \* no split is run on a heap of this many nodes

\* a node of n pairs, a leaf or a branch over n + 1 leaves of one pair
SplitFamily(n, branch) ==
    LET ids == {1} \cup {LatGrandChild(0, j) : j \in {i \in 0..n : branch}}
    IN [id \in ids |->
          IF id = 1
          THEN LatNode(1, n, IF branch THEN [j \in 1..(n + 1) |-> LatGrandChild(0, j - 1)]
                                       ELSE <<>>)
          ELSE LatNode(id, 1, <<>>)]

SplitInit ==
    /\ order \in Orders
    /\ impl \in Impls
    /\ \E n \in 1..SplitKeys, branch \in BOOLEAN : nodes = SplitFamily(n, branch)
    /\ root = 1
    /\ count = 0
    /\ shadow = <<>>
    /\ stepsOK = TRUE
    /\ steps = {}
    /\ ret = <<0, 0, 0>>

\* sibling, mid = self.split(): ret is what the call returned
SplitCall(self) ==
    /\ self \in DOMAIN nodes
    /\ nodes[self].keys # <<>>
    /\ Cardinality(DOMAIN nodes) < SplitNodes
    /\ LET sp == Split(Tree, self)
       IN /\ nodes' = sp.S.nodes
          /\ stepsOK' = sp.S.ok
          /\ steps' = sp.S.ev
          /\ ret' = <<sp.sibling, sp.mid_key, sp.mid_val>>
    /\ UNCHANGED <<order, impl, root, count, shadow>>
    /\ UNCHANGED <<walVars, handlerVars, extVars>>

SplitIds == 1..(LatGrandChild(0, SplitKeys) + SplitNodes)

SplitNext == \E self \in SplitIds : SplitCall(self)

----------------------------------------------------------------------------
(* Part X: page allocation (handler.py).  A FileHandler is opened on a     *)
(* data file; the engine takes pages with next_available_page and gives    *)
(* them back with collect_deprecated_page.                                 *)

AllocFilePages == 3  \* the data files opened have at most this many pages
MaxLastPage == 5     \* last_page stays within this bound
MaxFreeLen == 3      \* the freelist stays within this length

NoCall == [op |-> "none", page |-> 0]

\* the allocator of a handler that is not used
AllocIdle ==
    /\ last_page = 0
    /\ aret = NoCall

\* a data file of n pages: the metadata page and pages whose first byte is
\* types[p]
FileOf(n, types) ==
    [i \in 1..(n * PageSize) |->
        IF (i - 1) % PageSize = 0 /\ i > PageSize THEN types[(i - 1) \div PageSize] ELSE 0]

\* the data files a handler is opened on
AllocFiles ==
    UNION {{FileOf(n, types) :
              types \in [1..(n - 1) -> {NORMAL_PAGE, OVERFLOW_PAGE, DEPRECATED_PAGE}]} :
           n \in 1..AllocFilePages} \cup {<<>>}

\* page_type == 2 in _load_page_gc: the equality of a bytes object and an
\* int, which Python answers with False whatever the byte is
BytesEqInt(data, n) == FALSE

\* FileHandler._load_page_gc: the offsets of range(1, last_page) whose page
\* type compares equal to 2, in ascending order
RECURSIVE LoadPageGC(_, _, _)
LoadPageGC(file, offset, last) ==
    IF offset >= last THEN <<>>
    ELSE LET page_start == offset * PageSize
             page_type == ReadFromFile(file, page_start,
                                       page_start + NODE_TYPE_LENGTH_LIMIT).data
         IN (IF BytesEqInt(page_type, 2) THEN <<offset>> ELSE <<>>)
            \o LoadPageGC(file, offset + 1, last)

\* FileHandler.__init__: last_page = int(last_byte / page_size)
LastPageOf(file) == Len(file) \div PageSize

\* FileHandler._takeout_deprecated_page: pop(0), or None
TakeoutDeprecatedPage(gc) ==
    IF gc # <<>>
    THEN [gc |-> Tail(gc), none |-> FALSE, page |-> Head(gc)]
    ELSE [gc |-> gc, none |-> TRUE, page |-> 0]

\* FileHandler.next_available_page; "if dep_page" is false for None and 0
NextAvailablePage(gc, last) ==
    LET dep_page == TakeoutDeprecatedPage(gc)
    IN IF ~dep_page.none /\ dep_page.page # 0
       THEN [gc |-> dep_page.gc, last_page |-> last, page |-> dep_page.page]
       ELSE [gc |-> dep_page.gc, last_page |-> last + 1, page |-> last + 1]

\* FileHandler(file_name, ...) on the data file db
AllocOpen ==
    /\ last_page' = LastPageOf(db)
    /\ page_GC' = LoadPageGC(db, 1, LastPageOf(db))
    /\ aret' = [op |-> "open", page |-> 0]
    /\ UNCHANGED <<treeVars, walVars, handlerVars, threadVars, crashVars, facadeVars,
                   afterAlloc>>

\* handler.next_available_page
AllocNext ==
    /\ last_page < MaxLastPage
    /\ LET r == NextAvailablePage(page_GC, last_page)
       IN /\ page_GC' = r.gc
          /\ last_page' = r.last_page
          /\ aret' = [op |-> "next", page |-> r.page]
    /\ UNCHANGED <<treeVars, walVars, handlerVars, threadVars, crashVars, facadeVars,
                   afterAlloc>>

\* handler.collect_deprecated_page(page) on a page that was handed out
AllocCollect(page) ==
    /\ page <= last_page
    /\ Len(page_GC) < MaxFreeLen
    /\ page_GC' = CollectDeprecatedPage(page_GC, page)
    /\ aret' = [op |-> "collect", page |-> page]
    /\ UNCHANGED last_page
    /\ UNCHANGED <<treeVars, walVars, handlerVars, threadVars, crashVars, facadeVars,
                   afterAlloc>>

AllocStep ==
    \/ AllocOpen
    \/ AllocNext
    \/ \E page \in 1..MaxLastPage : AllocCollect(page)

\* a handler just opened on the data file db
AllocInit ==
    /\ db \in AllocFiles
    /\ cache = NewCache
    /\ cache_size = 1
    /\ auto_commit = TRUE
    /\ lock = "free"
    /\ hstate = "open"
    /\ txnBegin = NoTransaction
    /\ batch = <<>>
    /\ promised = <<>>
    /\ last_page = LastPageOf(db)
    /\ page_GC = LoadPageGC(db, 1, LastPageOf(db))
    /\ aret = [op |-> "open", page |-> 0]

----------------------------------------------------------------------------
(* Part XI: reads after writes.  set_node inside write transactions,       *)
(* get_node inside and outside of them, and commit, on three pages and     *)
(* with each of the three caches.                                          *)

RywMaxPage == 3     \* the pages set and got are 1..RywMaxPage
RywWalLen == 50     \* the WAL file grows no longer than this

RywPages == 1..RywMaxPage

\* FileHandler.__init__: cache_size < 0 makes an LRUCache without a
\* capacity, 0 a FakeCache, and 1 an LRUCache of one node
RywCacheSizes == {-1, 0, 1}

\* no set_node yet
RywIdle == lastSet = <<>>

\* the handler takes the state H; the transaction is left on an exception
RywTakes(r, raised) ==
    IF raised /\ lock = "writer"
    THEN /\ Takes(ExitTransaction([wal |-> r.wal, cache |-> r.cache, db |-> r.db],
                                  TRUE, auto_commit))
         /\ lock' = "free"
         /\ lastSet' = <<>>
    ELSE /\ Takes(r)
         /\ UNCHANGED <<lock, lastSet>>

\* WriteTransaction.__enter__
RywEnter ==
    /\ lock = "free"
    /\ lock' = "writer"
    /\ UNCHANGED <<wal, cache, db, lastSet>>
    /\ UNCHANGED <<cache_size, auto_commit, hstate, txnBegin, batch, promised>>
    /\ UNCHANGED <<treeVars, durable, pending, written, lastOp>>
    /\ UNCHANGED <<threadVars, crashVars, freeVars, facadeVars, allocVars,
                   afterRyw>>

\* set_node(node) inside the transaction
RywSetNode(page, page_data) ==
    /\ lock = "writer"
    /\ LET r == HSetNode(HandlerState, [page |-> page, data |-> page_data])
       IN /\ Len(r.wal.fd) <= RywWalLen
          /\ IF r.raised = "none"
             THEN /\ Takes(r)
                  /\ lastSet' = (page :> page_data) @@ lastSet
                  /\ UNCHANGED lock
             ELSE RywTakes(r, TRUE)
    /\ UNCHANGED <<cache_size, auto_commit, hstate, txnBegin, batch, promised>>
    /\ UNCHANGED <<treeVars, durable, pending, written, lastOp>>
    /\ UNCHANGED <<threadVars, crashVars, freeVars, facadeVars, allocVars,
                   afterRyw>>

\* get_node(page), inside the write transaction or in a read transaction
RywGetNode(page) ==
    /\ LET r == HGetNode(HandlerState, page)
       IN RywTakes(r, r.raised # "none")
    /\ UNCHANGED <<cache_size, auto_commit, hstate, txnBegin, batch, promised>>
    /\ UNCHANGED <<treeVars, durable, pending, written, lastOp>>
    /\ UNCHANGED <<threadVars, crashVars, freeVars, facadeVars, allocVars,
                   afterRyw>>

\* WriteTransaction.__exit__ without an exception: a commit when
\* auto-commit is on
RywExit ==
    /\ lock = "writer"
    /\ Len(ExitTransaction(HandlerState, FALSE, auto_commit).wal.fd) <= RywWalLen
    /\ Takes(ExitTransaction(HandlerState, FALSE, auto_commit))
    /\ lock' = "free"
    /\ UNCHANGED lastSet
    /\ UNCHANGED <<cache_size, auto_commit, hstate, txnBegin, batch, promised>>
    /\ UNCHANGED <<treeVars, durable, pending, written, lastOp>>
    /\ UNCHANGED <<threadVars, crashVars, freeVars, facadeVars, allocVars,
                   afterRyw>>

\* FileHandler.commit
RywCommit ==
    /\ lock = "free"
    /\ wal.not_committed # <<>>
    /\ Len(HCommit(HandlerState).wal.fd) <= RywWalLen
    /\ Takes(HCommit(HandlerState))
    /\ UNCHANGED <<lock, lastSet>>
    /\ UNCHANGED <<cache_size, auto_commit, hstate, txnBegin, batch, promised>>
    /\ UNCHANGED <<treeVars, durable, pending, written, lastOp>>
    /\ UNCHANGED <<threadVars, crashVars, freeVars, facadeVars, allocVars,
                   afterRyw>>

RywNext ==
    \/ RywEnter
    \/ \E p \in RywPages, d \in NodeImages : RywSetNode(p, d)
    \/ \E p \in RywPages : RywGetNode(p)
    \/ RywExit
    \/ RywCommit

\* FileHandler(file_name, tree_conf, cache_size) when there are no files,
\* and auto-commit as set_auto_commit left it
RywInit ==
    /\ cache = NewCache
    /\ cache_size \in RywCacheSizes
    /\ db = <<>>
    /\ auto_commit \in BOOLEAN
    /\ lock = "free"
    /\ hstate = "open"
    /\ txnBegin = NoTransaction
    /\ batch = <<>>
    /\ promised = <<>>
    /\ lastSet = <<>>

----------------------------------------------------------------------------
(* Part XII: ensure_root_block statement by statement, and a kill of the   *)
(* process between its statements.  The WAL file object buffers a PAGE     *)
(* frame until the next seek or sync; the metadata page is written to the  *)
(* data file with f_sync=True.  A kill loses the buffer.                   *)

MaxKills == 1       \* the process is killed at most this many times

NoRoot == [page |-> 0, data |-> <<>>]

\* no ensure_root_block in steps
RootIdle == erb = [phase |-> "idle", old |-> NoRoot, new |-> NoRoot, kills |-> 0]

\* FileHandler.get_meta_tree_conf: the root page that page 0 names
GetMetaTreeConf(file) ==
    LET r == ReadPageData(file, 0)
    IN IF r.raised # "none"
       THEN [raised |-> "ValueError", root_page |-> 0]
       ELSE [raised |-> "none",
             root_page |-> FromBytes(SubSeq(r.data, 1, PAGE_ADDRESS_LIMIT))]

\* with write_transaction: ensure_root_block(root), its first statement:
\* set_node(root)
RootSetNode(page, page_data) ==
    /\ erb.phase \in {"idle", "reopened"}
    /\ lock = "free"
    /\ LET r == HSetNode(HandlerState, [page |-> page, data |-> page_data])
       IN /\ Fits(r)
          /\ IF r.raised = "none"
             THEN /\ Takes(r)
                  /\ lock' = "writer"
                  /\ erb' = [erb EXCEPT !.phase = "set",
                                        !.new = [page |-> page, data |-> page_data]]
             ELSE /\ Takes(ExitTransaction([wal |-> r.wal, cache |-> r.cache, db |-> r.db],
                                           TRUE, auto_commit))
                  /\ UNCHANGED <<lock, erb>>
    /\ hstate' = "open"
    /\ UNCHANGED <<cache_size, auto_commit, txnBegin, batch, promised, crashVars>>
    /\ UNCHANGED <<treeVars, durable, pending, written, lastOp, threadVars>>
    /\ UNCHANGED <<freeVars, facadeVars, allocVars, rywVars,
                   afterRoot>>

\* the second statement: set_meta_tree_conf(root.page, root.tree_conf),
\* which writes page 0 of the data file and syncs it
RootSetMeta ==
    /\ erb.phase = "set"
    /\ db' = SetMetaTreeConf(HandlerState, erb.new.page).db
    /\ dbDisk' = db'
    /\ erb' = [erb EXCEPT !.phase = "meta"]
    /\ UNCHANGED <<wal, cache, cache_size, auto_commit, lock, hstate, txnBegin, batch,
                   promised, ckpt>>
    /\ UNCHANGED <<treeVars, durable, pending, written, lastOp, threadVars>>
    /\ UNCHANGED <<freeVars, facadeVars, allocVars, rywVars,
                   afterRoot>>

\* the third statement: commit(), and the exit of the transaction
RootCommit ==
    /\ erb.phase = "meta"
    /\ Fits(ExitTransaction(HCommit(HandlerState), FALSE, auto_commit))
    /\ Takes(ExitTransaction(HCommit(HandlerState), FALSE, auto_commit))
    /\ lock' = "free"
    /\ erb' = [erb EXCEPT !.phase = "idle", !.old = erb.new, !.new = NoRoot]
    /\ UNCHANGED <<cache_size, auto_commit, hstate, txnBegin, batch, promised, crashVars>>
    /\ UNCHANGED <<treeVars, durable, pending, written, lastOp, threadVars>>
    /\ UNCHANGED <<freeVars, facadeVars, allocVars, rywVars,
                   afterRoot>>

\* the process is killed: the files keep the bytes that were flushed
RootKill ==
    /\ erb.phase \in {"idle", "set", "meta"}
    /\ erb.kills < MaxKills
    /\ wal' = [fd |-> wal.disk, disk |-> wal.disk, committed |-> <<>>, not_committed |-> <<>>,
               state |-> "killed"]
    /\ db' = dbDisk
    /\ cache' = NewCache
    /\ lock' = "free"
    /\ hstate' = "closed"
    /\ erb' = [erb EXCEPT !.phase = "killed", !.kills = @ + 1]
    /\ UNCHANGED <<cache_size, auto_commit, txnBegin, batch, promised, crashVars>>
    /\ UNCHANGED <<treeVars, durable, pending, written, lastOp, threadVars>>
    /\ UNCHANGED <<freeVars, facadeVars, allocVars, rywVars,
                   afterRoot>>

\* FileHandler.__init__ on the files the killed process left
RootOpen ==
    /\ erb.phase = "killed"
    /\ LET r == WalInit(wal.fd)
       IN /\ r.raised = "none"
          /\ wal' = r.W
    /\ cache' = NewCache
    /\ auto_commit' = TRUE
    /\ hstate' = "reopened"
    /\ erb' = [erb EXCEPT !.phase = "reopened"]
    /\ UNCHANGED <<cache_size, db, lock, txnBegin, batch, promised, crashVars>>
    /\ UNCHANGED <<treeVars, durable, pending, written, lastOp, threadVars>>
    /\ UNCHANGED <<freeVars, facadeVars, allocVars, rywVars,
                   afterRoot>>

RootNext ==
    \/ \E p \in WalPages, d \in NodeImages : RootSetNode(p, d)
    \/ RootSetMeta
    \/ RootCommit
    \/ RootKill
    \/ RootOpen

----------------------------------------------------------------------------
(* Part XIII: the page images of BNode and OverflowNode (node.py), byte by *)
(* byte.  A pair is [key, value]; its serializers write one byte for the   *)
(* key and one for the value.  The operators work on a state               *)
(* T = [wal, cache, db, gc, last, raised]: the handler, its freelist and   *)
(* high-water counter, and the exception that ended the call, if any.      *)

NODE_CONTENTS_LENGTH_LIMIT == 2
SERIALIZER_TYPE_LENGTH_LIMIT == 1

\* the header of a BNode page and of an OverflowNode page
NodeHeaderLen == NODE_TYPE_LENGTH_LIMIT + 2 * NODE_CONTENTS_LENGTH_LIMIT + PAGE_ADDRESS_LIMIT
OverflowHeaderLen == NODE_TYPE_LENGTH_LIMIT + PAGE_LENGTH_LIMIT + PAGE_ADDRESS_LIMIT

\* KeyValPair.length
PairLength ==
    KEY_LENGTH_LIMIT + TreeConf.key_size + VALUE_LENGTH_LIMIT + TreeConf.value_size
      + 2 * SERIALIZER_TYPE_LENGTH_LIMIT

Zeros(n) == [i \in 1..n |-> 0]

\* KeyValPair._dump
PairDump(pair) ==
    ToBytes(1, KEY_LENGTH_LIMIT) \o <<pair.key>> \o Zeros(TreeConf.key_size - 1)
      \o ToBytes(1, SERIALIZER_TYPE_LENGTH_LIMIT)
      \o ToBytes(1, VALUE_LENGTH_LIMIT) \o <<pair.value>> \o Zeros(TreeConf.value_size - 1)
      \o ToBytes(1, SERIALIZER_TYPE_LENGTH_LIMIT)

\* KeyValPair.load
PairLoad(data) ==
    LET key_len == FromBytes(PySlice(data, 0, KEY_LENGTH_LIMIT))
        key_type_end == KEY_LENGTH_LIMIT + TreeConf.key_size + SERIALIZER_TYPE_LENGTH_LIMIT
        val_len_end == key_type_end + VALUE_LENGTH_LIMIT
        val_len == FromBytes(PySlice(data, key_type_end, val_len_end))
    IN IF Len(data) # PairLength \/ key_len > TreeConf.key_size \/ val_len > TreeConf.value_size
       THEN [raised |-> "AssertionError", pair |-> [key |-> 0, value |-> 0]]
       ELSE [raised |-> "none",
             pair |-> [key |-> FromBytes(PySlice(data, KEY_LENGTH_LIMIT,
                                                 KEY_LENGTH_LIMIT + key_len)),
                       value |-> FromBytes(PySlice(data, val_len_end, val_len_end + val_len))]]

\* the mutant of OverflowDump: the page image names no next page
OverflowDumpUnchained(overflow_data, next_page) ==
    LET data == ToBytes(OVERFLOW_PAGE, NODE_TYPE_LENGTH_LIMIT)
                  \o ToBytes(Len(overflow_data), PAGE_LENGTH_LIMIT)
                  \o ToBytes(0, PAGE_ADDRESS_LIMIT)
                  \o overflow_data
    IN data \o Zeros(PageSize - Len(data))

\* OverflowNode.dump, once its chain is settled
OverflowDump(overflow_data, next_page) ==
    LET data == ToBytes(OVERFLOW_PAGE, NODE_TYPE_LENGTH_LIMIT)
                  \o ToBytes(Len(overflow_data), PAGE_LENGTH_LIMIT)
                  \o ToBytes(next_page, PAGE_ADDRESS_LIMIT)
                  \o overflow_data
    IN data \o Zeros(PageSize - Len(data))

\* OverflowNode.load; next_page 0 stands for None
OverflowLoad(data) ==
    LET data_len_end == NODE_TYPE_LENGTH_LIMIT + PAGE_LENGTH_LIMIT
        data_len == FromBytes(PySlice(data, NODE_TYPE_LENGTH_LIMIT, data_len_end))
        header_end == data_len_end + PAGE_ADDRESS_LIMIT
    IN [next_page |-> FromBytes(PySlice(data, data_len_end, header_end)),
        overflow_data |-> PySlice(data, header_end, header_end + data_len)]

\* the state T after a call on the handler that gave r
After(T, r) == [T EXCEPT !.wal = r.wal, !.cache = r.cache, !.db = r.db, !.raised = r.raised]

\* the state T after handler.get_node gave r, and the node it returned
GotNode(T, r) == [T |-> After(T, r), node |-> r.node]

\* the state T after handler.get_node(page), and the node it returned
GetIn(T, page) == GotNode(T, HGetNode(T, page))

\* the state T after handler.set_node(node)
SetIn(T, node) == After(T, HSetNode(T, node))

\* self.overflow_data + next_overflow.get_complete_data()
Joined(overflow_data, rest) == [T |-> rest.T, data |-> overflow_data \o rest.data]

\* handler.get_node(page).get_complete_data(); g is what get_node gave
RECURSIVE GetCompleteData(_, _), CompleteDataOf(_)
CompleteDataOf(g) ==
    LET of == OverflowLoad(g.node.data)
    IN IF g.T.raised # "none" THEN [T |-> g.T, data |-> <<>>]
       ELSE IF FromBytes(PySlice(g.node.data, 0, NODE_TYPE_LENGTH_LIMIT)) # OVERFLOW_PAGE
       THEN [T |-> [g.T EXCEPT !.raised = "AttributeError"], data |-> <<>>]
       ELSE IF of.next_page # 0
       THEN Joined(of.overflow_data, GetCompleteData(g.T, of.next_page))
       ELSE [T |-> g.T, data |-> of.overflow_data]

GetCompleteData(T, page) == CompleteDataOf(GetIn(T, page))

\* collect_deprecated_page(page) when set_deprecated_data, which gave r,
\* raised nothing
Collected(T1, r, page) ==
    IF r.raised # "none" THEN After(T1, r)
    ELSE [After(T1, r) EXCEPT !.gc = CollectDeprecatedPage(T1.gc, page)]

\* set_deprecated_data and collect_deprecated_page on the page itself, in
\* the state T1 that the pages after it left
DeprecatedThis(T1, page, auto) ==
    IF T1.raised # "none" THEN T1
    ELSE Collected(T1, HSetDeprecatedData(T1, page,
                                          ToBytes(DEPRECATED_PAGE, NODE_TYPE_LENGTH_LIMIT),
                                          auto), page)

\* handler.get_node(page).set_as_deprecated(): the pages after this one
\* first, then set_deprecated_data and collect_deprecated_page; g is what
\* get_node gave
RECURSIVE OverflowSetAsDeprecated(_, _, _), DeprecatedFrom(_, _, _)
DeprecatedFrom(g, page, auto) ==
    LET of == OverflowLoad(g.node.data)
    IN IF g.T.raised # "none" THEN g.T
       ELSE DeprecatedThis(IF of.next_page # 0
                           THEN OverflowSetAsDeprecated(g.T, of.next_page, auto)
                           ELSE g.T, page, auto)

OverflowSetAsDeprecated(T, page, auto) == DeprecatedFrom(GetIn(T, page), page, auto)

\* OverflowNode.flush: the chunk that stays in the page and the next page
\* that the rest of the chain, settled in deeper, begins on
Flushed(deeper, page, chunk) ==
    IF deeper.T.raised # "none" THEN [T |-> deeper.T, page |-> page]
    ELSE [T |-> SetIn(deeper.T, [page |-> page,
                                 data |-> OverflowDump(chunk, deeper.page)]),
          page |-> page]

\* BaseBNode._create_or_update_overflow without the crop: the bytes data
\* go to the overflow node on next_page, or on a new page when next_page
\* is 0; update_overflow_data and flush settle the rest of the chain
RECURSIVE CreateOrUpdateOverflow(_, _, _, _), UpdateOverflowData(_, _, _, _, _)
UpdateOverflowData(T0, page, of_next, data, auto) ==
    LET detach_start == PageSize - OverflowHeaderLen
    IN IF T0.raised # "none" THEN [T |-> T0, page |-> page]
       ELSE IF Len(data) + OverflowHeaderLen > PageSize
       THEN Flushed(CreateOrUpdateOverflow(T0, of_next,
                                           PySlice(data, detach_start, Len(data)), auto),
                    page, PySlice(data, 0, detach_start))
       ELSE IF of_next # 0
       THEN Flushed([T |-> OverflowSetAsDeprecated(T0, of_next, auto), page |-> 0],
                    page, data)
       ELSE Flushed([T |-> T0, page |-> 0], page, data)

\* the overflow node that get_node gave as g takes the bytes
OverflowOnExisting(g, page, data, auto) ==
    UpdateOverflowData(g.T, page, OverflowLoad(g.node.data).next_page, data, auto)

\* a new overflow node on the page a that next_available_page gave
OverflowOnNew(T, a, data, auto) ==
    UpdateOverflowData([T EXCEPT !.gc = a.gc, !.last = a.last_page], a.page, 0, data, auto)

CreateOrUpdateOverflow(T, next_page, data, auto) ==
    IF next_page # 0
    THEN OverflowOnExisting(GetIn(T, next_page), next_page, data, auto)
    ELSE OverflowOnNew(T, NextAvailablePage(T.gc, T.last), data, auto)

\* the payload cropped to the page, its rest on the chain that w settled
Cropped(w, data) == [T |-> w.T, data |-> data, next_page |-> w.page]

\* the payload fits the page: the chain was deprecated, which left d
Unchained(d, data, next_page) ==
    [T |-> d, data |-> data, next_page |-> IF d.raised # "none" THEN next_page ELSE 0]

\* BNode._adjust_overflow_chain: the payload that stays in the page, and
\* the next page of the node
AdjustOverflowChain(T, next_page, data, auto) ==
    LET detach_start == PageSize - NodeHeaderLen
    IN IF Len(data) + NodeHeaderLen > PageSize
       THEN Cropped(CreateOrUpdateOverflow(T, next_page,
                                           PySlice(data, detach_start, Len(data)), auto),
                    PySlice(data, 0, detach_start))
       ELSE IF next_page # 0
       THEN Unchained(OverflowSetAsDeprecated(T, next_page, auto), data, next_page)
       ELSE [T |-> T, data |-> data, next_page |-> next_page]

\* the pairs and the children of a node as _dump lays them out
RECURSIVE PairsBytes(_)
PairsBytes(contents) ==
    IF contents = <<>> THEN <<>> ELSE PairDump(Head(contents)) \o PairsBytes(Tail(contents))

RECURSIVE ChildrenBytes(_)
ChildrenBytes(children) ==
    IF children = <<>> THEN <<>>
    ELSE ToBytes(Head(children), PAGE_ADDRESS_LIMIT) \o ChildrenBytes(Tail(children))

\* the page image of a BNode: header, payload and padding
NodeImage(pairs_len, children_len, next_page, data) ==
    LET image == ToBytes(NORMAL_PAGE, NODE_TYPE_LENGTH_LIMIT)
                   \o ToBytes(pairs_len, NODE_CONTENTS_LENGTH_LIMIT)
                   \o ToBytes(children_len, NODE_CONTENTS_LENGTH_LIMIT)
                   \o ToBytes(next_page, PAGE_ADDRESS_LIMIT)
                   \o data
    IN image \o Zeros(PageSize - Len(image))

\* the node and its dump once _adjust_overflow_chain gave adj: the header
\* with the lengths and the next page, the payload and the padding
Dumped(B, pairs_len, children_len, adj) ==
    [T |-> adj.T,
     B |-> IF adj.T.raised # "none" THEN [B EXCEPT !.next_page = adj.next_page]
           ELSE [B EXCEPT !.next_page = adj.next_page,
                          !.dumped = NodeImage(pairs_len, children_len, adj.next_page,
                                               adj.data)]]

\* BNode._dump on the node B = [page, contents, children, next_page, dumped]
BNodeDump(T, B, auto) ==
    Dumped(B, Len(PairsBytes(B.contents)), Len(ChildrenBytes(B.children)),
           AdjustOverflowChain(T, B.next_page,
                               PairsBytes(B.contents) \o ChildrenBytes(B.children), auto))

\* BNode.load: the pairs and the children that the page image data holds
RECURSIVE LoadPairs(_, _, _), LoadChildren(_, _, _)
LoadPairs(data, off_set, pairs_end) ==
    IF off_set >= pairs_end THEN [raised |-> "none", contents |-> <<>>]
    ELSE LET p == PairLoad(PySlice(data, off_set, off_set + PairLength))
             rest == LoadPairs(data, off_set + PairLength, pairs_end)
         IN IF p.raised # "none" THEN [raised |-> p.raised, contents |-> <<>>]
            ELSE [raised |-> rest.raised, contents |-> <<p.pair>> \o rest.contents]

LoadChildren(data, off_set, children_end) ==
    IF off_set >= children_end THEN <<>>
    ELSE <<FromBytes(PySlice(data, off_set, off_set + PAGE_ADDRESS_LIMIT))>>
           \o LoadChildren(data, off_set + PAGE_ADDRESS_LIMIT, children_end)

BNodeLoad(T, page_data) ==
    LET pairs_len_end == NODE_TYPE_LENGTH_LIMIT + NODE_CONTENTS_LENGTH_LIMIT
        pairs_len == FromBytes(PySlice(page_data, NODE_TYPE_LENGTH_LIMIT, pairs_len_end))
        children_len_end == pairs_len_end + NODE_CONTENTS_LENGTH_LIMIT
        children_len == FromBytes(PySlice(page_data, pairs_len_end, children_len_end))
        header_end == children_len_end + PAGE_ADDRESS_LIMIT
        next_page == FromBytes(PySlice(page_data, children_len_end, header_end))
        c == GetCompleteData(T, next_page)
        data == IF next_page # 0 THEN page_data \o c.data ELSE page_data
        pairs_end == header_end + pairs_len
        children_end == pairs_end + children_len
        ps == LoadPairs(data, header_end, pairs_end)
        none == [raised |-> "none", contents |-> <<>>, children |-> <<>>, next_page |-> next_page]
    IN IF Len(page_data) # PageSize THEN [none EXCEPT !.raised = "AssertionError"]
       ELSE IF next_page # 0 /\ c.T.raised # "none" THEN [none EXCEPT !.raised = c.T.raised]
       ELSE IF ps.raised # "none" THEN [none EXCEPT !.raised = ps.raised]
       ELSE IF children_end > Len(data) THEN [none EXCEPT !.raised = "AssertionError"]
       ELSE [none EXCEPT !.contents = ps.contents,
                         !.children = LoadChildren(data, pairs_end, children_end)]

\* the body the six *_in_dump methods share: the payload is taken from the
\* dump and the overflow chain, whose data is c, the bytes
\* [start, start + removed) are replaced by inserted, the lengths in the
\* header change by pairs_delta and children_delta, and the overflow chain
\* is adjusted.  in_children says that start counts from the end of the
\* pairs.
Spliced(c, B, in_children, start, removed, inserted, pairs_delta, children_delta, auto) ==
    LET pairs_len_end == NODE_TYPE_LENGTH_LIMIT + NODE_CONTENTS_LENGTH_LIMIT
        pairs_len == FromBytes(PySlice(B.dumped, NODE_TYPE_LENGTH_LIMIT, pairs_len_end))
        children_len == FromBytes(PySlice(B.dumped, pairs_len_end,
                                          pairs_len_end + NODE_CONTENTS_LENGTH_LIMIT))
        orig == PySlice(B.dumped, NodeHeaderLen, NodeHeaderLen + pairs_len + children_len)
                  \o c.data
        target_start == IF in_children THEN pairs_len + start ELSE start
        spliced == PySlice(orig, 0, target_start) \o inserted
                     \o PySlice(orig, target_start + removed, Len(orig))
    IN IF c.T.raised # "none" THEN [T |-> c.T, B |-> B]
       ELSE Dumped(B, pairs_len + pairs_delta, children_len + children_delta,
                   AdjustOverflowChain(c.T, B.next_page, spliced, auto))

\* a *_in_dump method: nothing without a dump; the data of the overflow
\* chain is read when the node has a next page
SpliceInDump(T, B, in_children, start, removed, inserted, pairs_delta, children_delta, auto) ==
    IF B.dumped = <<>> THEN [T |-> T, B |-> B]
    ELSE IF B.next_page # 0
    THEN Spliced(GetCompleteData(T, B.next_page), B, in_children, start, removed, inserted,
                 pairs_delta, children_delta, auto)
    ELSE Spliced([T |-> T, data |-> <<>>], B, in_children, start, removed, inserted,
                 pairs_delta, children_delta, auto)

MaxPairs == 2        \* the node holds at most this many pairs
MaxChildren == 1     \* and at most this many children
PgWalLen == 87       \* the WAL file grows no longer than this

\* the pairs and the children a caller puts into the node
PairSet == {[key |-> 1, value |-> 3], [key |-> 2, value |-> 4]}
ChildSet == {5}

NoBNode == [page |-> 0, contents |-> <<>>, children |-> <<>>, next_page |-> 0,
            dumped |-> <<>>, raised |-> "none", last |-> "none"]

\* no node
PgIdle == bn = NoBNode

\* the handler, its freelist and its high-water counter
PgState ==
    [wal |-> wal, cache |-> cache, db |-> db, gc |-> page_GC, last |-> last_page,
     raised |-> "none"]

\* the call op took the handler to r.T and the node to r.B; an exception
\* leaves the write transaction through rollback and cache.clear()
PgTakes(r, op) ==
    /\ Len(r.T.wal.fd) <= PgWalLen
    /\ IF r.T.raised = "none"
       THEN Takes(r.T)
       ELSE Takes(ExitTransaction([wal |-> r.T.wal, cache |-> r.T.cache, db |-> r.T.db],
                                  TRUE, auto_commit))
    /\ page_GC' = r.T.gc
    /\ last_page' = r.T.last
    /\ bn' = [r.B EXCEPT !.raised = r.T.raised, !.last = op]
    /\ UNCHANGED <<cache_size, auto_commit, lock, hstate, txnBegin, batch, promised>>
    /\ UNCHANGED <<treeVars, durable, pending, written, lastOp>>
    /\ UNCHANGED <<threadVars, crashVars, facadeVars, aret, rywVars, rootVars, afterPg>>

\* self.contents.insert(index, pair); self.insert_content_in_dump(index, pair)
InsertContentInDump(index, pair) ==
    /\ bn.raised = "none"
    /\ Len(bn.contents) < MaxPairs
    /\ index <= Len(bn.contents)
    /\ LET B == [bn EXCEPT !.contents = PyInsert(@, index, pair)]
       IN PgTakes(SpliceInDump(PgState, B, FALSE, PairLength * index, 0, PairDump(pair),
                               PairLength, 0, auto_commit), "in_dump")

\* self.contents[index] = pair; self.update_content_in_dump(index, pair)
UpdateContentInDump(index, pair) ==
    /\ bn.raised = "none"
    /\ index < Len(bn.contents)
    /\ LET B == [bn EXCEPT !.contents = PySet(@, index, pair)]
       IN PgTakes(SpliceInDump(PgState, B, FALSE, PairLength * index, PairLength,
                               PairDump(pair), 0, 0, auto_commit), "in_dump")

\* self.contents.pop(index); self.pop_content_in_dump(index)
PopContentInDump(index) ==
    /\ bn.raised = "none"
    /\ index < Len(bn.contents)
    /\ LET B == [bn EXCEPT !.contents = PyPop(@, index)]
       IN PgTakes(SpliceInDump(PgState, B, FALSE, PairLength * index, PairLength, <<>>,
                               0 - PairLength, 0, auto_commit), "in_dump")

\* self.children.insert(index, child); self.insert_child_in_dump(index, child)
InsertChildInDump(index, child) ==
    /\ bn.raised = "none"
    /\ Len(bn.children) < MaxChildren
    /\ index <= Len(bn.children)
    /\ LET B == [bn EXCEPT !.children = PyInsert(@, index, child)]
       IN PgTakes(SpliceInDump(PgState, B, TRUE, index * PAGE_ADDRESS_LIMIT, 0,
                               ToBytes(child, PAGE_ADDRESS_LIMIT), 0, PAGE_ADDRESS_LIMIT,
                               auto_commit), "in_dump")

\* self.children[index] = child; self.update_child_in_dump(index, child)
UpdateChildInDump(index, child) ==
    /\ bn.raised = "none"
    /\ index < Len(bn.children)
    /\ LET B == [bn EXCEPT !.children = PySet(@, index, child)]
       IN PgTakes(SpliceInDump(PgState, B, TRUE, index * PAGE_ADDRESS_LIMIT,
                               PAGE_ADDRESS_LIMIT, ToBytes(child, PAGE_ADDRESS_LIMIT), 0, 0,
                               auto_commit), "in_dump")

\* self.children.pop(index); self.pop_child_in_dump(index)
PopChildInDump(index) ==
    /\ bn.raised = "none"
    /\ index < Len(bn.children)
    /\ LET B == [bn EXCEPT !.children = PyPop(@, index)]
       IN PgTakes(SpliceInDump(PgState, B, TRUE, index * PAGE_ADDRESS_LIMIT,
                               PAGE_ADDRESS_LIMIT, <<>>, 0, 0 - PAGE_ADDRESS_LIMIT,
                               auto_commit), "in_dump")

\* handler.set_node(node) once node.dump() gave d: the frame and the cache
SetDumped(d) ==
    [T |-> IF d.T.raised # "none" THEN d.T
           ELSE SetIn(d.T, [page |-> d.B.page, data |-> d.B.dumped]),
     B |-> d.B]

\* handler.set_node(node) on a new or changed node: node.dump(), which dumps
\* the node when it has no dump yet, then the frame and the cache
PgSetNode ==
    /\ bn.raised = "none"
    /\ bn.last \notin {"dump", "set_node", "re_dump"}
    /\ PgTakes(SetDumped(IF bn.dumped # <<>> THEN [T |-> PgState, B |-> bn]
                         ELSE BNodeDump(PgState, bn, auto_commit)),
               IF bn.dumped # <<>> THEN "set_node" ELSE "dump")

\* node.re_dump() and handler.set_node(node), as grow does after a merge
PgReDump ==
    /\ bn.raised = "none"
    /\ bn.dumped # <<>>
    /\ bn.last \notin {"dump", "set_node", "re_dump"}
    /\ PgTakes(SetDumped(BNodeDump(PgState, bn, auto_commit)), "re_dump")

\* the write transaction ends and the next one begins: a commit when
\* auto-commit is on
PgCommit ==
    /\ bn.raised = "none"
    /\ wal.not_committed # <<>>
    /\ PgTakes([T |-> [PgState EXCEPT !.wal = ExitTransaction(PgState, FALSE, auto_commit).wal],
                B |-> bn], bn.last)

PgNext ==
    \/ \E i \in 0..MaxPairs, p \in PairSet : InsertContentInDump(i, p)
    \/ \E i \in 0..MaxPairs, p \in PairSet : UpdateContentInDump(i, p)
    \/ \E i \in 0..MaxPairs : PopContentInDump(i)
    \/ \E i \in 0..MaxChildren, c \in ChildSet : InsertChildInDump(i, c)
    \/ \E i \in 0..MaxChildren, c \in ChildSet : UpdateChildInDump(i, c)
    \/ \E i \in 0..MaxChildren : PopChildInDump(i)
    \/ PgSetNode
    \/ PgReDump
    \/ PgCommit

\* a handler on new files, inside a write transaction, and a new BNode
\* without pairs on the page that next_available_page gave it
PgInit ==
    /\ cache = NewCache
    /\ cache_size \in CacheSizes
    /\ db = <<>>
    /\ auto_commit \in BOOLEAN
    /\ lock = "writer"
    /\ hstate = "open"
    /\ txnBegin = NoTransaction
    /\ batch = <<>>
    /\ promised = <<>>
    /\ page_GC = <<>>
    /\ last_page = 1
    /\ aret = NoCall
    /\ bn = [NoBNode EXCEPT !.page = 1]

----------------------------------------------------------------------------
(* Part XIV: LRUCache of utils.py on its own.  The cache is                *)
(* lc = [data, lru, capacity]; the ghost part of the state records the     *)
(* cached keys in the order of their most recent access, the last call,    *)
(* what it raised and what it returned.                                    *)

LruMaxKey == 3      \* the keys of the calls are 1..LruMaxKey
LruMaxCapacity == 2 \* the capacities are 1..LruMaxCapacity

LruKeys == 1..LruMaxKey
LruCapacities == 1..LruMaxCapacity

\* no LRUCache
NoLru == [data |-> <<>>, lru |-> <<>>, capacity |-> 0, seen |-> <<>>,
          op |-> "none", key |-> 0, raised |-> "none", value |-> Absent]

LruIdle == lc = NoLru

\* ghost: the cached key is accessed now
Touch(seen, key) == Append(SelectSeq(seen, LAMBDA k : k # key), key)

\* ghost: the keys that are no longer cached leave the record
Forget(seen, data) == SelectSeq(seen, LAMBDA k : k \in DOMAIN data)

\* LRUCache.__init__(capacity=c)
LruNew == \E c \in LruCapacities : lc = [NoLru EXCEPT !.capacity = c]

\* the cache after a call
LruTakes(C, op, key, raised, value, touched) ==
    /\ lc' = [data |-> C.data, lru |-> C.lru, capacity |-> lc.capacity,
              seen |-> Forget(IF touched THEN Touch(lc.seen, key) ELSE lc.seen, C.data),
              op |-> op, key |-> key, raised |-> raised, value |-> value]
    /\ UNCHANGED <<treeVars, walVars, handlerVars, threadVars, crashVars, freeVars,
                   facadeVars, allocVars, rywVars, rootVars, pgVars>>

\* LRUCache.get(key): dict.get, then refresh, whether or not the key is
\* cached
LruGet(key) ==
    /\ lc # NoLru
    /\ LruTakes(Refresh(lc, key), "get", key, "none",
                IF key \in DOMAIN lc.data THEN lc.data[key] ELSE Absent,
                key \in DOMAIN lc.data)

\* LRUCache.__getitem__(key): dict.__getitem__, which raises KeyError for a
\* key that is not cached, then refresh
LruGetItem(key) ==
    /\ lc # NoLru
    /\ IF key \in DOMAIN lc.data
       THEN LruTakes(Refresh(lc, key), "getitem", key, "none", lc.data[key], TRUE)
       ELSE LruTakes(lc, "getitem", key, "KeyError", Absent, FALSE)

\* the eviction of LRUCache.__setitem__: self.pop(self.lru.pop(0)), where
\* dict.pop raises KeyError for a key that is not cached
LruEvict(C) ==
    IF Head(C.lru) \in DOMAIN C.data
    THEN [C |-> [C EXCEPT !.lru = Tail(@), !.data = DictDel(@, Head(C.lru))],
          raised |-> "none"]
    ELSE [C |-> [C EXCEPT !.lru = Tail(@)], raised |-> "KeyError"]

\* LRUCache.__setitem__(key, value) on the cache C
LruPut(C, key, value) ==
    LET C1 == Refresh([C EXCEPT !.data = (key :> value) @@ @], key)
    IN IF Cardinality(DOMAIN C1.data) > C.capacity
       THEN LruEvict(C1)
       ELSE [C |-> C1, raised |-> "none"]

\* self[key] = value
LruSetItemCall(key, value) ==
    /\ lc # NoLru
    /\ LruTakes(LruPut(lc, key, value).C, "setitem", key, LruPut(lc, key, value).raised,
                Absent, TRUE)

\* LRUCache.__delitem__(key): dict.__delitem__, which raises KeyError for a
\* key that is not cached, then lru.remove
LruDelItemCall(key) ==
    /\ lc # NoLru
    /\ IF key \in DOMAIN lc.data
       THEN LruTakes([lc EXCEPT !.data = DictDel(@, key),
                                !.lru = SelectSeq(@, LAMBDA k : k # key)],
                     "delitem", key, "none", Absent, FALSE)
       ELSE LruTakes(lc, "delitem", key, "KeyError", Absent, FALSE)

\* LRUCache.clear()
LruClear ==
    /\ lc # NoLru
    /\ LruTakes([lc EXCEPT !.data = <<>>, !.lru = <<>>], "clear", 0, "none", Absent, FALSE)

LruNext ==
    \/ \E k \in LruKeys : LruGet(k)
    \/ \E k \in LruKeys : LruGetItem(k)
    \/ \E k \in LruKeys, v \in Values : LruSetItemCall(k, v)
    \/ \E k \in LruKeys : LruDelItemCall(k)
    \/ LruClear

----------------------------------------------------------------------------
(* Part XV: the pages of new nodes (handler.py, node.py).  The engine      *)
(* makes a node on the page that next_available_page returns and sets it   *)
(* inside a write transaction; the handler is checkpointed, closed or      *)
(* killed, and opened again on the files that are left.  No node is        *)
(* deprecated here, so every node that was set and not rolled back stays   *)
(* in the tree.                                                            *)

FreshMaxPage == 3   \* the pages handed out are 1..FreshMaxPage
FreshWalLen == 55   \* the WAL file grows no longer than this

\* the data file holds the image of a node or of an overflow page on page
OnFile(file, page) ==
    /\ Len(file) >= (page + 1) * PageSize
    /\ file[page * PageSize + 1] \in {NORMAL_PAGE, OVERFLOW_PAGE}

\* the pages that hold a node in the cache, the WAL or the data file
LivePages ==
    {page \in 1..FreshMaxPage :
        \/ page \in DOMAIN cache.data
        \/ page \in DOMAIN wal.committed
        \/ page \in DOMAIN wal.not_committed
        \/ OnFile(db, page)}

\* the handler after the call that made r of the node on the page a.page
FreshTakes(r, a) ==
    /\ Len(r.wal.fd) <= FreshWalLen
    /\ IF r.raised = "none"
       THEN /\ Takes(r)
            /\ UNCHANGED <<lock, txnBegin, batch>>
       ELSE /\ Takes(ExitTransaction([wal |-> r.wal, cache |-> r.cache, db |-> r.db],
                                     TRUE, auto_commit))
            /\ batch' = <<>>
            /\ lock' = "free"
            /\ txnBegin' = NoTransaction
    /\ page_GC' = a.gc
    /\ last_page' = a.last_page
    /\ aret' = [op |-> "next", page |-> a.page]
    /\ UNCHANGED <<cache_size, auto_commit, hstate, promised>>
    /\ UNCHANGED <<treeVars, durable, pending, written, lastOp, threadVars, crashVars,
                   facadeVars, afterAlloc>>

\* BNode(tree, tree_conf, ...) without a page, then set_node of it
FreshNode(page_data) ==
    /\ lock = "writer"
    /\ NextAvailablePage(page_GC, last_page).page <= FreshMaxPage
    /\ FreshTakes(HSetNode(HandlerState,
                           [page |-> NextAvailablePage(page_GC, last_page).page,
                            data |-> page_data]),
                  NextAvailablePage(page_GC, last_page))

\* BNode(tree, tree_conf, ...) without a page, then ensure_root_block of it
FreshRoot(page_data) ==
    /\ lock = "writer"
    /\ NextAvailablePage(page_GC, last_page).page <= FreshMaxPage
    /\ FreshTakes(HEnsureRootBlock(HandlerState,
                                   [page |-> NextAvailablePage(page_GC, last_page).page,
                                    data |-> page_data]),
                  NextAvailablePage(page_GC, last_page))

\* the process is killed: the WAL file keeps the bytes that were flushed,
\* the data file is written with f_sync and by checkpoints only
FreshKill ==
    /\ hstate # "closed"
    /\ wal' = [fd |-> wal.disk, disk |-> wal.disk, committed |-> <<>>, not_committed |-> <<>>,
               state |-> "killed"]
    /\ cache' = NewCache
    /\ lock' = "free"
    /\ hstate' = "closed"
    /\ txnBegin' = NoTransaction
    /\ batch' = <<>>
    /\ page_GC' = <<>>
    /\ last_page' = 0
    /\ aret' = [op |-> "kill", page |-> 0]
    /\ UNCHANGED <<cache_size, db, auto_commit, promised>>
    /\ UNCHANGED <<treeVars, durable, pending, written, lastOp, threadVars, crashVars,
                   facadeVars, afterAlloc>>

\* FileHandler.__init__ on the files that a closed or killed handler left
FreshOpen ==
    /\ hstate = "closed"
    /\ WalInit(wal.fd).raised = "none"
    /\ wal' = WalInit(wal.fd).W
    /\ cache' = NewCache
    /\ auto_commit' = TRUE
    /\ hstate' = "reopened"
    /\ last_page' = LastPageOf(db)
    /\ page_GC' = LoadPageGC(db, 1, LastPageOf(db))
    /\ aret' = [op |-> "open", page |-> 0]
    /\ UNCHANGED <<cache_size, db, lock, txnBegin, batch, promised>>
    /\ UNCHANGED <<treeVars, durable, pending, written, lastOp, threadVars, crashVars,
                   facadeVars, afterAlloc>>

FreshNext ==
    \/ BeginWrite
    \/ \E d \in NodeImages : FreshNode(d)
    \/ \E d \in NodeImages : FreshRoot(d)
    \/ ExitNormal
    \/ Checkpoint
    \/ Close
    \/ FreshKill
    \/ FreshOpen

----------------------------------------------------------------------------
(* Part XVI: the release of the writer lock (handler.py).  The threads of  *)
(* Part IV run write transactions, the timer runs the checkpoint and a     *)
(* user thread closes the handler: close() runs perform_checkpoint(), a    *)
(* write transaction of its own whose __exit__ commits on the WAL that     *)
(* WAL.checkpoint has closed.  pc[t] is also "closing" inside that         *)
(* transaction, "closed" before its release and "raised" when __exit__     *)
(* raised.                                                                 *)

\* the WAL file has room for the frames of one more transaction
Room ==
    Len(wal.fd) + Cardinality(ThreadPages) * (FRAME_HEADER_LENGTH + PageSize)
        + FRAME_HEADER_LENGTH <= MaxHandlerWalLen

\* with handler.write_transaction: by a user thread
XWriteEnter(t) ==
    /\ hstate # "closed"
    /\ Room
    /\ TWriteEnter(t)

\* perform_checkpoint(reopen_wal=True) by the timer: __enter__
XTimerEnter ==
    /\ hstate # "closed"
    /\ TWriteEnter("timer")

\* close() by thread t: __enter__ of the transaction of perform_checkpoint()
XCloseEnter(t) ==
    /\ hstate # "closed"
    /\ pc[t] = "idle"
    /\ CanWrite
    /\ lock' = "writer"
    /\ pc' = [pc EXCEPT ![t] = "closing"]
    /\ UNCHANGED <<wal, cache, cache_size, db, auto_commit, hstate, txnBegin, batch, promised>>
    /\ UNCHANGED <<readers, everCommitted, exitLog>>
    /\ UNCHANGED <<treeVars, durable, pending, written, lastOp, afterThreads>>

\* close() by thread t: the block of perform_checkpoint() and __exit__ up
\* to the release of the lock; an exception of the commit leaves __exit__
\* and close()
XCloseExit(t) ==
    /\ pc[t] = "closing"
    /\ Takes(PerformCheckpoint(HandlerState, FALSE, auto_commit))
    /\ pc' = [pc EXCEPT ![t] =
                 IF PerformCheckpoint(HandlerState, FALSE, auto_commit).raised = "none"
                 THEN "closed" ELSE "raised"]
    /\ UNCHANGED <<cache_size, auto_commit, lock, hstate, txnBegin, batch, promised>>
    /\ UNCHANGED <<readers, everCommitted, exitLog>>
    /\ UNCHANGED <<treeVars, durable, pending, written, lastOp, afterThreads>>

\* close() by thread t: writer_lock.release(), then the rest of close()
XCloseRelease(t) ==
    /\ pc[t] = "closed"
    /\ lock' = "free"
    /\ cache' = CacheClear(cache)
    /\ hstate' = "closed"
    /\ pc' = [pc EXCEPT ![t] = "idle"]
    /\ UNCHANGED <<wal, cache_size, db, auto_commit, txnBegin, batch, promised>>
    /\ UNCHANGED <<readers, everCommitted, exitLog>>
    /\ UNCHANGED <<treeVars, durable, pending, written, lastOp, afterThreads>>

ExitNextStep ==
    \/ \E t \in Users : XWriteEnter(t)
    \/ \E t \in Users, p \in ThreadPages, d \in NodeImages : TSetNode(t, p, d)
    \/ \E t \in Users, exc \in BOOLEAN : TWriteExit(t, exc)
    \/ XTimerEnter
    \/ TCheckpoint("timer")
    \/ \E t \in Threads : TRelease(t)
    \/ \E t \in Users : XCloseEnter(t)
    \/ \E t \in Users : XCloseExit(t)
    \/ \E t \in Users : XCloseRelease(t)
    \/ \E t \in Users : TReadEnter(t)
    \/ \E t \in Users : TReadExit(t)
    \/ \E auto \in BOOLEAN : TSetAutoCommit(auto)

\* a thread that is inside a write transaction runs to the end of it
ExitFairness ==
    /\ \A t \in Users : WF_vars(\E exc \in BOOLEAN : TWriteExit(t, exc))
    /\ WF_vars(TCheckpoint("timer"))
    /\ \A t \in Threads : WF_vars(TRelease(t))
    /\ \A t \in Users : WF_vars(XCloseExit(t))
    /\ \A t \in Users : WF_vars(XCloseRelease(t))

----------------------------------------------------------------------------
(* Part XVII: flush (handler.py).  A user thread of Part IV calls flush(): *)
(* a write transaction that sets every cached node on the WAL, commits and *)
(* then calls perform_checkpoint(reopen_wal=True), a write transaction     *)
(* inside the first.  rwlock.RWLock is outside the repository: the thread  *)
(* that holds the writer lock acquires it again without waiting, and the   *)
(* lock is free once it was released as often as it was acquired.  pc[t]   *)
(* is "flushing" in the block of flush, "nesting" before the second        *)
(* acquire, "checkpointing" in the block of perform_checkpoint, "leaving"  *)
(* before the __exit__ of flush and "failing" when the block raised.       *)

\* for node in nodes: self._wal.set_page(node.page, node.dump())
RECURSIVE SetPages(_, _)
SetPages(W, cached) ==
    IF DOMAIN cached = {} THEN W
    ELSE LET page == CHOOSE p \in DOMAIN cached : \A q \in DOMAIN cached : p <= q
         IN SetPages(WalSetPage(W, cached[page].page, Dump(cached[page])),
                     DictDel(cached, page))

\* the handler H once commit() has run on the WAL W that the loop of flush
\* left
FlushCommitted(H, W) ==
    [wal |-> WalCommit(W), cache |-> CacheClear(H.cache), db |-> H.db, raised |-> "none"]

\* the block of flush up to perform_checkpoint; a FakeCache has no values()
FlushBlock(H) ==
    IF cache_size = 0
    THEN [wal |-> H.wal, cache |-> H.cache, db |-> H.db, raised |-> "AttributeError"]
    ELSE CHOOSE r \in {FlushCommitted(H, W) : W \in {SetPages(H.wal, H.cache.data)}} : TRUE

\* flush() by thread t: __enter__
FlushEnter(t) ==
    /\ hstate # "closed"
    /\ pc[t] = "idle"
    /\ CanWrite
    /\ lock' = "writer"
    /\ pc' = [pc EXCEPT ![t] = "flushing"]
    /\ exitLog' = NoExit
    /\ UNCHANGED <<wal, cache, cache_size, db, auto_commit, hstate, txnBegin, batch, promised>>
    /\ UNCHANGED <<readers, everCommitted>>
    /\ UNCHANGED <<treeVars, durable, pending, written, lastOp, afterThreads>>

\* flush() by thread t: the block up to perform_checkpoint; exitLog keeps
\* the nodes that were cached
FlushBody(t) ==
    /\ pc[t] = "flushing"
    /\ Takes(FlushBlock(HandlerState))
    /\ pc' = [pc EXCEPT ![t] = IF FlushBlock(HandlerState).raised = "none"
                               THEN "nesting" ELSE "failing"]
    /\ exitLog' = [NoExit EXCEPT !.thread = t,
                                 !.wrote = {<<cache.data[p].page, Dump(cache.data[p])>> :
                                               p \in DOMAIN cache.data}]
    /\ UNCHANGED <<cache_size, auto_commit, lock, hstate, txnBegin, batch, promised>>
    /\ UNCHANGED <<readers, everCommitted>>
    /\ UNCHANGED <<treeVars, durable, pending, written, lastOp, afterThreads>>

\* flush() by thread t: __enter__ of the transaction of perform_checkpoint,
\* by the thread that holds the writer lock
FlushNest(t) ==
    /\ pc[t] = "nesting"
    /\ lock = "writer"
    /\ pc' = [pc EXCEPT ![t] = "checkpointing"]
    /\ UNCHANGED <<readers, everCommitted, exitLog>>
    /\ UNCHANGED <<treeVars, walVars, handlerVars, afterThreads>>

\* flush() by thread t: the block of perform_checkpoint(reopen_wal=True),
\* its __exit__ and the release of the second acquire
FlushCheckpoint(t) ==
    /\ pc[t] = "checkpointing"
    /\ Takes(PerformCheckpoint(HandlerState, TRUE, auto_commit))
    /\ pc' = [pc EXCEPT ![t] = "leaving"]
    /\ UNCHANGED <<cache_size, auto_commit, lock, hstate, txnBegin, batch, promised>>
    /\ UNCHANGED <<readers, everCommitted, exitLog>>
    /\ UNCHANGED <<treeVars, durable, pending, written, lastOp, afterThreads>>

\* flush() by thread t: __exit__ of its transaction and the release of the
\* lock; exc tells whether the block raised
FlushExit(t, exc) ==
    /\ pc[t] = IF exc THEN "failing" ELSE "leaving"
    /\ Takes(ExitTransaction(HandlerState, exc, auto_commit))
    /\ lock' = "free"
    /\ pc' = [pc EXCEPT ![t] = "idle"]
    /\ UNCHANGED <<cache_size, auto_commit, hstate, txnBegin, batch, promised>>
    /\ UNCHANGED <<readers, everCommitted, exitLog>>
    /\ UNCHANGED <<treeVars, durable, pending, written, lastOp, afterThreads>>

FlushNext ==
    \/ \E t \in Users : XWriteEnter(t)
    \/ \E t \in Users, p \in ThreadPages, d \in NodeImages : TSetNode(t, p, d)
    \/ \E t \in Users, exc \in BOOLEAN : TWriteExit(t, exc)
    \/ \E t \in Users : TRelease(t)
    \/ \E t \in Users : TReadEnter(t)
    \/ \E t \in Users, p \in ThreadPages : TGetNode(t, p)
    \/ \E t \in Users : TReadExit(t)
    \/ \E auto \in BOOLEAN : TSetAutoCommit(auto)
    \/ \E t \in Users : FlushEnter(t)
    \/ \E t \in Users : FlushBody(t)
    \/ \E t \in Users : FlushNest(t)
    \/ \E t \in Users : FlushCheckpoint(t)
    \/ \E t \in Users, exc \in BOOLEAN : FlushExit(t, exc)

\* the steps that end the call thread t is in
RunsOn(t) ==
    \/ \E exc \in BOOLEAN : TWriteExit(t, exc)
    \/ TRelease(t)
    \/ TReadExit(t)
    \/ FlushBody(t)
    \/ FlushNest(t)
    \/ FlushCheckpoint(t)
    \/ \E exc \in BOOLEAN : FlushExit(t, exc)

\* a thread that is inside a transaction or inside flush runs to its end
FlushFairness == \A t \in Users : WF_vars(RunsOn(t))

----------------------------------------------------------------------------
(* The specifications *)

\* a tree that is not used
\* the parts after Part III not in use
ExtIdle == ThreadsIdle /\ CrashIdle /\ FreeIdle /\ FacadeIdle /\ AllocIdle /\ RywIdle /\ RootIdle /\ PgIdle /\ LruIdle

TreeIdle ==
    /\ order = 2
    /\ impl = "BNode"
    /\ nodes = (1 :> Node(<<>>, <<>>, <<>>))
    /\ root = 1
    /\ count = 0
    /\ shadow = <<>>
    /\ stepsOK = TRUE
    /\ steps = {}
    /\ ret = "none"

Init == TreeInit /\ WalIdle /\ HandlerIdle /\ ExtIdle

Next == TreeNext

\* the B-tree in memory, orders 2 and 3
Spec == Init /\ [][Next]_vars

InitTall == TallInit /\ WalIdle /\ HandlerIdle /\ ExtIdle

\* the B-tree in memory, order 2, up to three levels
SpecTall == InitTall /\ [][TallNext]_vars

InitWAL == TreeIdle /\ WalNew /\ HandlerIdle /\ ExtIdle

\* the write-ahead log, its process killed and restarted
SpecWAL == InitWAL /\ [][WalNext]_vars

InitHandler == TreeIdle /\ WalNew /\ HandlerNew /\ ExtIdle

\* the file handler over its WAL and its data file, without kills
SpecHandler == InitHandler /\ [][HandlerNext]_vars

InitThreads == TreeIdle /\ WalNew /\ HandlerNew /\ ExtIdle

\* threads in read and write transactions on one file handler
SpecThreads == InitThreads /\ [][ThreadsNext]_vars

InitCrash == TreeIdle /\ WalNew /\ HandlerNew /\ ExtIdle

\* write transactions, and checkpoints that a kill may cut short
SpecCrash == InitCrash /\ [][CrashNext]_vars

InitFree == TreeIdle /\ WalNew /\ HandlerNew /\ ExtIdle

\* write transactions that deprecate overflow pages, and checkpoints
SpecFree == InitFree /\ [][FreeNext]_vars

InitFacade ==
    /\ TreeInit /\ WalIdle /\ HandlerIdle /\ ThreadsIdle /\ CrashIdle /\ FreeIdle /\ FacadeNew
    /\ AllocIdle /\ RywIdle /\ RootIdle /\ PgIdle /\ LruIdle

\* the calls of one user of a CannonDB and its checkpoint thread
SpecFacade == InitFacade /\ [][FacadeNext]_vars

InitLateral == LateralInit /\ WalIdle /\ HandlerIdle /\ ExtIdle

\* lateral calls on every small family of a parent and its children
SpecLateral == InitLateral /\ [][LateralNext]_vars

InitSplit == SplitInit /\ WalIdle /\ HandlerIdle /\ ExtIdle

\* splits of every small node, and of the halves
SpecSplit == InitSplit /\ [][SplitNext]_vars


InitAlloc ==
    /\ TreeIdle /\ WalNew /\ AllocInit
    /\ ThreadsIdle /\ CrashIdle /\ FacadeIdle /\ RywIdle /\ RootIdle /\ PgIdle /\ LruIdle

\* the calls on the allocator of a handler opened on a small data file
SpecAlloc == InitAlloc /\ [][AllocStep]_vars


InitRyw ==
    /\ TreeIdle /\ WalNew /\ RywInit
    /\ ThreadsIdle /\ CrashIdle /\ FreeIdle /\ FacadeIdle /\ AllocIdle /\ RootIdle /\ PgIdle /\ LruIdle

\* set_node, get_node and commit on a handler with each of the caches
SpecRyw == InitRyw /\ [][RywNext]_vars


InitRoot ==
    /\ TreeIdle /\ WalNew /\ HandlerNew
    /\ ThreadsIdle /\ CrashIdle /\ FreeIdle /\ FacadeIdle /\ AllocIdle /\ RywIdle /\ RootIdle /\ PgIdle /\ LruIdle

\* calls of ensure_root_block, one kill of the process and the reopening
SpecRoot == InitRoot /\ [][RootNext]_vars


InitPg ==
    /\ TreeIdle /\ WalNew /\ PgInit
    /\ ThreadsIdle /\ CrashIdle /\ FacadeIdle /\ RywIdle /\ RootIdle /\ LruIdle

\* the mutations of one BNode with their *_in_dump calls, its dumps and
\* the commits in between, with each of the caches
SpecPg == InitPg /\ [][PgNext]_vars


InitLru ==
    /\ TreeIdle /\ WalIdle /\ HandlerIdle
    /\ ThreadsIdle /\ CrashIdle /\ FreeIdle /\ FacadeIdle /\ AllocIdle /\ RywIdle /\ RootIdle /\ PgIdle
    /\ LruNew

\* the calls on an LRUCache of each capacity
SpecLru == InitLru /\ [][LruNext]_vars

\* Part XV: a handler made on new files, its pages taken by new nodes
InitFresh == TreeIdle /\ WalNew /\ HandlerNew /\ ExtIdle

SpecFresh == InitFresh /\ [][FreshNext]_vars

\* Part XVI: the threads of Part IV with close(), every thread running to
\* the end of the transaction it is in
InitExit == TreeIdle /\ WalNew /\ HandlerNew /\ ExtIdle

SpecExit == InitExit /\ [][ExitNextStep]_vars /\ ExitFairness

\* Part XVII: the threads of Part IV with flush(), every thread running to
\* the end of the call it is in
InitFlush == TreeIdle /\ WalNew /\ HandlerNew /\ ExtIdle

SpecFlush == InitFlush /\ [][FlushNext]_vars /\ FlushFairness

----------------------------------------------------------------------------
(* Part I: properties of the B-tree *)

\* the keys the tree holds, by the ghost record of inserts and removes
Held == {k \in DOMAIN shadow : shadow[k] # Absent}

\* the keys iteration yields, in the order it yields them
IterKeys(S) == [i \in 1..Len(TreeIter(S)) |-> TreeIter(S)[i][1]]

\* C1: get(k) returns the value of the last insert(k, v) that no later
\* insert or remove of k followed, whatever the other operations did.
C1_GetReturnsInserted ==
    \A k \in Held : TreeGet(Tree, k, Absent) = shadow[k]

\* C1 for BNode of node.py alone, which moves whole pairs
C1_GetReturnsInserted_BNode ==
    impl = "BNode" => \A k \in Held : TreeGet(Tree, k, Absent) = shadow[k]

\* C2: after remove(k) of a present key, get(k, default) returns the
\* default, iteration does not yield k, and get of every other key returns
\* what it returned before.
C2_RemoveLeavesOthers ==
    [][\A k \in DOMAIN shadow :
         (Present(Tree, k, PathTo(Tree, k)) /\ Remove(k)) =>
            /\ TreeGet(Tree', k, Absent) = Absent
            /\ \A i \in DOMAIN IterKeys(Tree') : IterKeys(Tree')[i] # k
            /\ \A j \in DOMAIN shadow \ {k} :
                   TreeGet(Tree', j, Absent) = TreeGet(Tree, j, Absent)]_vars

\* C3: iteration yields the keys held, each once, in strictly ascending
\* order, each with its current value.
C3_IterationSortedCurrent ==
    LET it == TreeIter(Tree)
    IN /\ Len(it) = Cardinality(Held)
       /\ \A i \in 1..Len(it) : it[i][1] \in Held /\ it[i][2] = shadow[it[i][1]]
       /\ \A i \in 1..(Len(it) - 1) : it[i][1] < it[i + 1][1]

\* the part of C3 about the keys alone
C3_IterationKeys ==
    LET it == TreeIter(Tree)
    IN /\ Len(it) = Cardinality(Held)
       /\ \A i \in 1..Len(it) : it[i][1] \in Held
       /\ \A i \in 1..(Len(it) - 1) : it[i][1] < it[i + 1][1]

\* C4: after every insert or remove, every node but the root holds at
\* least ceil(order/2) and at most order pairs.
C4_Occupancy ==
    \A i \in DOMAIN nodes :
        i # root => min_elements <= Len(nodes[i].keys) /\ Len(nodes[i].keys) <= order

\* C4 for order 2 alone
C4_Occupancy_Even ==
    order = 2 => C4_Occupancy

\* C5: after every insert or remove, and after every split, borrow and
\* merge step inside it, every node has no children or one more child than
\* it has pairs.
C5_ChildCount ==
    /\ stepsOK
    /\ \A i \in DOMAIN nodes : ChildCountOK(nodes[i])

\* a tree of three levels after a remove that merged two leaves and then
\* borrowed a pair and a child between two branches
C5_Witness ==
    /\ <<"borrow", "branch">> \in steps
    /\ <<"merge", "leaf">> \in steps
    /\ nodes[root].children # <<>>
    /\ nodes[nodes[root].children[1]].children # <<>>

----------------------------------------------------------------------------
(* Part II: properties of the WAL *)

\* C6: when the last operation on the WAL was a commit and the process is
\* killed and the WAL reopened, _load_wal rebuilds a committed table that
\* holds every page committed and not deprecated, and get_page returns the
\* image each had at the last commit.
C6_CommittedSurvive ==
    (wal.state \in {"recovered", "failed"} /\ lastOp[1] = "commit") =>
        /\ wal.state = "recovered"
        /\ \A p \in DOMAIN durable :
              /\ p \in DOMAIN wal.committed
              /\ WalGetPage(wal, p) = [raised |-> "none", data |-> durable[p]]

\* C7: after a kill and a reopen, no image written after the last COMMIT
\* frame is returned by get_page or yielded by checkpoint, whether or not
\* its page had a committed frame.
C7_UncommittedDiscarded ==
    wal.state = "recovered" =>
        \A p \in DOMAIN written :
            \/ p \in DOMAIN durable /\ durable[p] = written[p]
            \/ /\ WalGetPage(wal, p).data # written[p]
               /\ p \in DOMAIN wal.committed =>
                     WalCheckpointPages(wal)[p].data # written[p]

----------------------------------------------------------------------------
(* Part III: properties of the FileHandler *)

\* C8: rollback atomicity.  With auto-commit on and nothing uncommitted when
\* the write transaction began, after the transaction exits abnormally
\* (rollback, then cache clear) get_node(p) returns for every page p what it
\* returned when the transaction began: no image set inside the failed
\* transaction and no commit issued inside it stays visible.
C8_RollbackAtomicity ==
    [][(txnBegin.clean /\ ExitAbnormal) =>
          \A p \in WalPages : Visible(p)' = txnBegin.view[p]]_vars

\* C9: checkpoint does not change visible state.  For every page p that
\* get_node can read, whatever the WAL holds (committed frames only, or also
\* frames written since the last commit) and whether or not p is in the
\* cache, get_node(p) returns right after perform_checkpoint what it
\* returned right before it.
C9_CheckpointKeepsVisible ==
    [][Checkpoint =>
          \A p \in WalPages :
              Visible(p).raised = "none" => Visible(p)' = Visible(p)]_vars

\* C10: batched durability.  After auto-commit is turned off, write
\* transactions run and commit() is called, every page those transactions
\* set is readable with that image after close and reopen, however the
\* background checkpoint falls between those steps.
C10_BatchDurable ==
    hstate = "reopened" =>
        \A p \in DOMAIN promised :
            Visible(p) = [raised |-> "none", data |-> promised[p]]

----------------------------------------------------------------------------
(* Part IV: properties of the transactions *)

Writers == {t \in Threads : pc[t] \in {"writing", "releasing"}}

\* C11: reader/writer exclusion.  At most one thread is inside a write
\* transaction, the checkpoint of the timer thread counted, and no thread
\* is inside a read transaction while one is inside a write transaction.
C11_Exclusion ==
    /\ Cardinality(Writers) <= 1
    /\ Writers # {} => \A t \in Threads : pc[t] # "reading"

\* the timer thread is inside its checkpoint, with committed pages to move,
\* while a user thread has finished a write transaction
C11_Witness ==
    /\ pc["timer"] = "writing"
    /\ wal.committed # <<>>
    /\ \E p \in ThreadPages : everCommitted[p] # {}

\* C12: reader isolation.  Every page image that get_node gives to a
\* thread inside a read transaction is an image that a commit has made
\* committed, never one that was written to the WAL and not committed.
C12_ReaderIsolation ==
    \A t \in Users :
        pc[t] = "reading" =>
            \A p \in ThreadPages :
                Visible(p).raised = "none" => Visible(p).data \in everCommitted[p]

----------------------------------------------------------------------------
(* Part III: properties of the checkpoint *)

\* what get_node(page) returns in a handler opened on the data file alone
ReadsFromFile(file, page) ==
    LET r == HGetNode([wal |-> WalInit(<<>>).W, cache |-> NewCache, db |-> file], page)
    IN [raised |-> r.raised, data |-> r.node.data]

\* every page with a committed frame in W is in the data file with that
\* image, and a handler on the data file alone reads it
Drained(W, file) ==
    \A p \in DOMAIN W.committed :
        /\ ReadPageData(file, p) = WalCheckpointPages(W)[p]
        /\ ReadsFromFile(file, p) = WalCheckpointPages(W)[p]

----------------------------------------------------------------------------
(* Part V: properties of a kill during the checkpoint *)

\* C14: crash during checkpoint.  After the process is killed at any point
\* of perform_checkpoint and the handler is opened again, every page that
\* had a committed frame when the checkpoint began is readable with its
\* committed image.
C14_CrashDuringCheckpoint ==
    (ckpt.crashed /\ (hstate = "reopened" \/ wal.state = "failed")) =>
        /\ wal.state # "failed"
        /\ \A p \in DOMAIN ckpt.was :
              Visible(p) = [raised |-> "none", data |-> ckpt.was[p]]

----------------------------------------------------------------------------
(* Part VI: properties of deprecated pages *)

\* C15: deprecated pages reach disk.  For every page that
\* set_as_deprecated put into the freelist, with auto-commit on or off,
\* after the next checkpoint that completes the first byte of that page in
\* the data file is the DEPRECATED type.
C15_DeprecatedReachDisk ==
    [][Checkpoint =>
          \A p \in Elements(page_GC) :
              /\ ReadPageData(db', p).raised = "none"
              /\ FromBytes(SubSeq(ReadPageData(db', p).data, 1, NODE_TYPE_LENGTH_LIMIT))
                    = DEPRECATED_PAGE]_vars

----------------------------------------------------------------------------
(* Part I: properties of rejected operations *)

\* the keys held by the nodes of the tree
HeldKeys == UNION {Elements(nodes[id].keys) : id \in DOMAIN nodes}

\* C17: removing an absent key is rejected without effect.  remove(k) on a
\* tree that does not contain k fails with the key-not-found error
\* (ValueError) and leaves the tree unchanged: the same keys, values,
\* structure and element count.
C17_RemoveAbsentRejected ==
    [][\A k \in Keys :
          (Remove(k) /\ k \notin HeldKeys)
             => (ret' = "ValueError" /\ UNCHANGED <<nodes, root, count>>)]_vars

\* a remove of an absent key has been rejected on a tree of two levels
C17_Witness ==
    /\ ret = "ValueError"
    /\ count > 0
    /\ nodes[root].children # <<>>
    /\ \E k \in Keys : shadow[k] = Absent /\ k \notin HeldKeys

----------------------------------------------------------------------------
(* Part VII: properties of the facade *)

\* C16: a duplicate insert is rejected without effect.  insert(k, v) with
\* override false on a tree that already contains k fails with the
\* duplicate-key error (ValueError) and leaves the tree unchanged: the same
\* keys, values, structure and element count; and at the facade a get(k)
\* that follows still returns the old value, the one the tree holds.
C16_DuplicateRejected ==
    [][/\ \A k \in DbKeys, v \in Values :
            (DbInsert(k, v, FALSE) /\ sopen /\ k \in HeldKeys)
               => (dret'.raised = "ValueError" /\ UNCHANGED <<nodes, root, count>>)
       /\ \A k \in DbKeys :
            (DbGet(k) /\ dret.op = "insert" /\ dret.raised = "ValueError")
               => dret'.value = TreeGet(Tree, k, Absent)]_vars

\* C18: the closed database.  After close(), every later call of insert,
\* get, remove, commit or checkpoint fails with DatabaseClosed and changes
\* no state, and so does a checkpoint fired by the timer thread.
C18_ClosedDatabase ==
    [][/\ (is_closed /\ cpc = "idle" /\ ~TimerCheck /\ ~TimerFire)
             => (dret'.raised = "DatabaseClosed"
                   /\ UNCHANGED <<dcache, nodes, root, count>>)
       /\ (is_closed /\ TimerFire) => tpc' = "dead"]_vars

----------------------------------------------------------------------------
(* Part IV: properties of the exit of a write transaction *)

\* C19: the exit protocol of a write transaction.  Every write transaction
\* ends with exactly one of: a WAL commit, on a normal exit with auto-commit
\* on; nothing, on a normal exit with auto-commit off; a WAL rollback and
\* then a cleared page cache, on an abnormal exit.  The step is done while
\* the thread still holds the writer lock, so when the lock is released
\* after a failed transaction no page shows an image that the failed
\* transaction wrote, and the cache holds nothing.
C19_ExitProtocol ==
    \A t \in Users :
        (pc[t] = "releasing" /\ exitLog.thread = t) =>
            /\ lock = "writer"
            /\ (~exitLog.exc /\ exitLog.auto) => wal = WalCommit(exitLog.wal)
            /\ (~exitLog.exc /\ ~exitLog.auto) => wal = exitLog.wal
            /\ exitLog.exc =>
                 /\ wal = WalRollback(exitLog.wal)
                 /\ wal.not_committed = <<>>
                 /\ cache.data = <<>>
                 /\ \A p \in ThreadPages :
                        \/ Visible(p).raised # "none"
                        \/ Visible(p) = exitLog.view[p]
                        \/ Visible(p).data \in everCommitted[p]
                        \/ <<p, Visible(p).data>> \notin exitLog.wrote

----------------------------------------------------------------------------
(* Part I: properties of the nodes handed to the handler *)

\* the nodes of the tree S1 that differ from what they were in S0, or are
\* new, and whose current image set_node was not given
NotHandedOver(S0, S1) ==
    {id \in Elements(Preorder(S1.nodes, S1.root)) :
        /\ id \notin DOMAIN S0.nodes \/ S1.nodes[id] # S0.nodes[id]
        /\ id \notin DOMAIN S1.stored \/ S1.stored[id] # S1.nodes[id]}

\* C20: nodes are materialized before they can be lost from the cache.  At
\* the end of every completed insert of a new key and of every completed
\* remove on a tree of BNode, every node whose pairs or children changed
\* during the operation (the node, its parent, the donor and the recipient
\* of a borrow, both nodes of a merge or a split) has been given to
\* set_node with its current image.
C20_Materialized ==
    [][impl = "BNode" =>
         /\ \A k \in Keys, v \in Values :
               (Insert(k, v, FALSE) /\ ret' = "none")
                  => NotHandedOver(Tree, TreeInsert(Tree, k, v, FALSE).S) = {}
         /\ \A k \in Keys :
               (Remove(k) /\ ret' = "none")
                  => NotHandedOver(Tree, TreeRemove(Tree, k).S) = {}]_vars

----------------------------------------------------------------------------
(* Part VIII: properties of lateral *)

\* C22: borrow (lateral) preserves the tree.  One lateral call moves exactly
\* one pair from the donor into the parent slot and the old parent pair into
\* the recipient, and one child pointer when the nodes are branches;
\* afterwards the in-order sequence of pairs is what it was, the parent has
\* as many pairs as before, and donor, parent and recipient satisfy the
\* child-count invariant.
C22_LateralPreserves ==
    [][\A pi \in 0..LatParentKeys, ti \in 0..LatParentKeys :
          LateralCall(pi, ti) =>
             LET self == PyAt(nodes[root].children, pi)
                 target == PyAt(nodes[root].children, ti)
                 moved == IF nodes[self].children # <<>> THEN 1 ELSE 0
             IN /\ TreeIter([Tree EXCEPT !.nodes = nodes']) = TreeIter(Tree)
                /\ Len(nodes'[root].keys) = Len(nodes[root].keys)
                /\ nodes'[root].children = nodes[root].children
                /\ Len(nodes'[self].keys) = Len(nodes[self].keys) - 1
                /\ Len(nodes'[target].keys) = Len(nodes[target].keys) + 1
                /\ Len(nodes'[self].children) = Len(nodes[self].children) - moved
                /\ Len(nodes'[target].children) = Len(nodes[target].children) + moved
                /\ Len(nodes'[self].values) = Len(nodes'[self].keys)
                /\ Len(nodes'[target].values) = Len(nodes'[target].keys)
                /\ ChildCountOK(nodes'[self])
                /\ ChildCountOK(nodes'[root])
                /\ ChildCountOK(nodes'[target])]_vars

\* a branch has lent a pair and a child to its neighbour
C22_Witness ==
    /\ <<"borrow", "branch">> \in steps
    /\ Len(nodes[root].keys) = LatParentKeys
    /\ \E i \in 1..Len(nodes[root].children) :
          Len(nodes[nodes[root].children[i]].children) = LatChildKeys + 2

----------------------------------------------------------------------------
(* Part IX: properties of split *)

\* C23: split.  Splitting a node with n pairs (and n + 1 children if it is
\* a branch) uses mid = floor(n / 2): the node keeps pairs[0..mid) and
\* children[0..mid], the separator is pairs[mid], and the new sibling, a
\* new node, gets pairs(mid..n) and children(mid..n]; left pairs, separator
\* and right pairs make the original sequence, and when n is odd the two
\* halves have equally many pairs and equally many children.
C23_Split ==
    [][\A self \in SplitIds :
          SplitCall(self) =>
             LET s == nodes[self]
                 n == Len(s.keys)
                 mid == n \div 2
                 sib == ret'[1]
                 branch == s.children # <<>>
                 l == nodes'[self]
                 r == nodes'[sib]
             IN /\ sib \notin DOMAIN nodes
                /\ l.keys = SubSeq(s.keys, 1, mid)
                /\ l.values = SubSeq(s.values, 1, mid)
                /\ l.children = (IF branch THEN SubSeq(s.children, 1, mid + 1) ELSE <<>>)
                /\ ret'[2] = s.keys[mid + 1]
                /\ ret'[3] = s.values[mid + 1]
                /\ r.keys = SubSeq(s.keys, mid + 2, n)
                /\ r.values = SubSeq(s.values, mid + 2, n)
                /\ r.children = (IF branch THEN SubSeq(s.children, mid + 2, n + 1) ELSE <<>>)
                /\ l.keys \o <<ret'[2]>> \o r.keys = s.keys
                /\ l.values \o <<ret'[3]>> \o r.values = s.values
                /\ l.children \o r.children = s.children
                /\ n % 2 = 1 => /\ Len(l.keys) = Len(r.keys)
                                /\ Len(l.children) = Len(r.children)]_vars

\* a branch of SplitKeys pairs has been split into two branches
C23_Witness ==
    /\ <<"split", "branch">> \in steps
    /\ ret[1] \in DOMAIN nodes
    /\ Len(nodes[ret[1]].children) = (SplitKeys + 1) \div 2
    /\ Len(nodes[1].children) = (SplitKeys + 1) \div 2

----------------------------------------------------------------------------
(* Part X: properties of the page allocation *)

\* the sequence s ascends (equal neighbours allowed)
Ascending(s) == \A i \in 1..(Len(s) - 1) : s[i] <= s[i + 1]

\* C27: next_available_page returns and removes the smallest page of the
\* freelist when the freelist is not empty, and otherwise increments the
\* high-water counter and returns the new value; it never returns page 0,
\* and the freelist is sorted ascending after every collect_deprecated_page
\* and next_available_page
C27_AllocationOrder ==
    [][/\ Ascending(page_GC')
       /\ aret'.op = "next" =>
            /\ aret'.page # 0
            /\ IF page_GC # <<>>
               THEN /\ \A p \in Elements(page_GC) : aret'.page <= p
                    /\ aret'.page \in Elements(page_GC)
                    /\ Len(page_GC') = Len(page_GC) - 1
                    /\ \A p \in Elements(page_GC) :
                         Cardinality({i \in DOMAIN page_GC' : page_GC'[i] = p})
                           = Cardinality({i \in DOMAIN page_GC : page_GC[i] = p})
                               - (IF p = aret'.page THEN 1 ELSE 0)
                    /\ last_page' = last_page
               ELSE /\ last_page' = last_page + 1
                    /\ aret'.page = last_page'
                    /\ page_GC' = <<>>]_vars

\* a page taken from a freelist that still holds a larger page
C27_Witness ==
    /\ aret.op = "next"
    /\ aret.page < last_page
    /\ page_GC # <<>>
    /\ \E i \in DOMAIN page_GC : page_GC[i] > aret.page

\* C28: on open the freelist is exactly the set of the pages of the data
\* file, from page 1 on, whose first byte is the DEPRECATED type
C28_FreelistOnOpen ==
    aret.op = "open" =>
       Elements(page_GC) =
          {p \in 1..(Len(db) \div PageSize - 1) :
              FromBytes(SubSeq(ReadPageData(db, p).data, 1, NODE_TYPE_LENGTH_LIMIT))
                 = DEPRECATED_PAGE}

----------------------------------------------------------------------------
(* Part XI: properties of reads after writes *)

\* C29: after set_node(n), whatever set_node, get_node and commit calls
\* followed, get_node(n.page) returns a node with the contents of n, with
\* each of the caches
C29_ReadYourWrites ==
    \A p \in DOMAIN lastSet : Visible(p) = [raised |-> "none", data |-> lastSet[p]]

----------------------------------------------------------------------------
(* Part XII: properties of a kill during ensure_root_block *)

\* page 0 names the root r, and get_node finds the image of r on its page
RootIs(r) ==
    /\ r # NoRoot
    /\ GetMetaTreeConf(db).root_page = r.page
    /\ Visible(r.page) = [raised |-> "none", data |-> r.data]

\* C30: when the process was killed during or between calls of
\* ensure_root_block and the files are opened again, the metadata page names
\* a page whose recovered image is a root: the old root with the old
\* metadata, or the new root with the new metadata
C30_RootAtomic ==
    (erb.phase = "reopened" /\ erb.kills = 1 /\ GetMetaTreeConf(db).raised = "none")
       => (RootIs(erb.old) \/ RootIs(erb.new))

----------------------------------------------------------------------------
(* Part I: properties of the pages of the tree *)

\* the pages of the nodes made so far that the tree S does not reach from
\* its root and that the freelist gc does not hold.  A BNode takes its page
\* from next_available_page when it is made; the nodes here fit their pages
\* and have no overflow chain.
LeakedPages(S, gc) ==
    {page \in DOMAIN S.nodes :
        /\ page \notin Elements(Preorder(S.nodes, S.root))
        /\ page \notin Elements(gc)}

\* C21: no page leaks.  After every completed insert and remove on a tree of
\* BNode, every page from 1 to the high-water counter is reachable from the
\* root or is in the freelist; in particular the page of a node absorbed by
\* a merge is in the freelist afterwards.
C21_NoPageLeak ==
    [][impl = "BNode" =>
         /\ \A k \in Keys, v \in Values, o \in BOOLEAN :
               (Insert(k, v, o) /\ ret' = "none")
                  => LeakedPages(TreeInsert(Tree, k, v, o).S, page_GC') = {}
         /\ \A k \in Keys :
               (Remove(k) /\ ret' = "none")
                  => LeakedPages(TreeRemove(Tree, k).S, page_GC') = {}]_vars


----------------------------------------------------------------------------
(* Part XIII: the page images of a node *)

\* the bytes of the pairs and the children of the node
Payload(B) == PairsBytes(B.contents) \o ChildrenBytes(B.children)

\* the number of overflow pages that a payload of n bytes needs
NeededPages(n) ==
    IF n + NodeHeaderLen <= PageSize THEN 0
    ELSE LET room == PageSize - OverflowHeaderLen
             rest == n - (PageSize - NodeHeaderLen)
         IN (rest + room - 1) \div room

\* no overflow chain is longer than this
MaxChain == NeededPages(MaxPairs * PairLength + MaxChildren * PAGE_ADDRESS_LIMIT) + 1

\* the pages of the overflow chain that starts on page, as get_node shows
\* them, at most fuel of them
RECURSIVE ChainOf(_, _)
ChainOf(page, fuel) ==
    IF page = 0 \/ fuel = 0 THEN <<>>
    ELSE LET v == Visible(page)
         IN IF v.raised # "none" \/ Len(v.data) # PageSize
                 \/ FromBytes(PySlice(v.data, 0, NODE_TYPE_LENGTH_LIMIT)) # OVERFLOW_PAGE
            THEN <<page>>
            ELSE <<page>> \o ChainOf(OverflowLoad(v.data).next_page, fuel - 1)

\* what BNode(data = page_data) loads in this state
Loaded(page_data) == BNodeLoad(PgState, page_data)

C25_IncrementalDump ==
    bn.dumped # <<>>
    => LET l == Loaded(bn.dumped)
       IN /\ l.raised = "none"
          /\ l.contents = bn.contents
          /\ l.children = bn.children

\* the pages that a chain no longer needs when needed of them are enough
Released(chain, needed) == {chain[i] : i \in (needed + 1)..Len(chain)}

\* the node changes and its overflow chain is longer than the new payload
\* needs
Shrinks ==
    /\ bn.raised = "none"
    /\ bn.dumped # <<>>
    /\ Payload(bn') # Payload(bn) \/ bn'.last = "re_dump"
    /\ Len(ChainOf(bn.next_page, MaxChain)) > NeededPages(Len(Payload(bn')))

\* C26: when a mutation leaves the overflow chain longer than the payload
\* needs, each page of the part that is no longer needed is in the freelist
\* exactly once and not in the cache, and a node whose payload fits its
\* page has no next page
C26_ChainRelease ==
    [][Shrinks =>
         LET needed == NeededPages(Len(Payload(bn')))
         IN /\ \A p \in Released(ChainOf(bn.next_page, MaxChain), needed) :
                 /\ Cardinality({i \in DOMAIN page_GC' : page_GC'[i] = p}) = 1
                 /\ p \notin DOMAIN cache'.data
            /\ needed = 0 => bn'.next_page = 0]_vars


----------------------------------------------------------------------------
(* Part VII: the cache of the facade *)

\* C39: every entry of the facade's cache is the value the storage holds
\* for its key, so that get(k) returns the same with and without the cache
C39_CacheCoherence ==
    sopen => \A k \in DOMAIN dcache.data : dcache.data[k] = TreeGet(Tree, k, Absent)

----------------------------------------------------------------------------
(* Part I: the shape and the count of the B-tree *)

\* the depths of the leaves under the node id, which is at depth d
RECURSIVE LeafDepths(_, _, _)
LeafDepths(n, id, d) ==
    IF n[id].children = <<>> THEN {d}
    ELSE UNION {LeafDepths(n, n[id].children[i], d + 1) : i \in DOMAIN n[id].children}

\* the depth of the deepest leaf
Height(S) ==
    LET ds == LeafDepths(S.nodes, S.root, 0)
    IN CHOOSE d \in ds : \A e \in ds : e <= d

\* the kinds of step the operation ran on leaves or branches
Ran(what) == <<what, "leaf">> \in steps' \/ <<what, "branch">> \in steps'

C38_ElementCount ==
    /\ count = Cardinality(Held)
    /\ count = Len(TreeIter(Tree))


----------------------------------------------------------------------------
(* Part XIV: properties of LRUCache *)

\* the call is one that the dict contract lets fail: an item read or an
\* item deletion of a key that is not cached
MayFail(C) == C.op \in {"getitem", "delitem"} /\ C.raised = "KeyError"

\* C32: after every get, put, remove and clear, gets of keys that are not
\* cached included, the cache holds at most capacity entries and the call
\* did not fail
C32_LruBound ==
    /\ Cardinality(DOMAIN lc.data) <= lc.capacity
    /\ lc.raised = "none" \/ MayFail(lc)

\* C33: a put that makes the cache exceed its capacity evicts exactly one
\* entry, which is not the one just put and is the cached key whose most
\* recent access is the oldest; no other call evicts
C33_LruVictim ==
    [][LET over == Cardinality(DOMAIN lc.data \cup {lc'.key}) > lc.capacity
           gone == (DOMAIN lc.data \cup {lc'.key}) \ DOMAIN lc'.data
       IN /\ (lc'.op = "setitem" /\ over) =>
                /\ Cardinality(gone) = 1
                /\ lc'.key \notin gone
                /\ gone = {Head(SelectSeq(lc.seen, LAMBDA k : k # lc'.key))}
          /\ (lc'.op = "setitem" /\ ~over) => gone = {}
          /\ lc'.op \in {"get", "getitem"} => DOMAIN lc'.data = DOMAIN lc.data]_vars

\* C40: get(k) of a key that is not cached returns the default and leaves
\* the cached keys and the recency list as they were, and the recency list
\* holds exactly the cached keys, each once
C40_LruLookup ==
    [][/\ (lc'.op = "get" /\ lc'.key \notin DOMAIN lc.data) =>
            /\ lc'.value = Absent
            /\ DOMAIN lc'.data = DOMAIN lc.data
            /\ lc'.lru = lc.lru
       /\ Elements(lc'.lru) = DOMAIN lc'.data
       /\ Cardinality(Elements(lc'.lru)) = Len(lc'.lru)]_vars

----------------------------------------------------------------------------
(* Part VI: the assertion of WAL.set_page_deprecated *)

\* C35: the precondition of deprecation.  Whenever set_as_deprecated of an
\* overflow page reaches WAL.set_page_deprecated, that is with auto-commit on
\* and after the cache entry of the page was discarded, the page has a frame
\* in the committed table of the WAL, so that the assertion holds; this
\* includes a page set and released in one transaction and a page whose only
\* image is in the data file after a checkpoint.
C35_DeprecationPrecondition ==
    [][\A p \in WalPages :
          (/\ SetAsDeprecated(p)
           /\ auto_commit
           /\ CacheDiscard(HGetNode(HandlerState, p).cache, p).raised = "none")
             => p \in DOMAIN wal.committed]_vars

----------------------------------------------------------------------------
(* Part XV: the pages of new nodes *)

\* C34: allocation freshness.  The page that next_available_page returns for
\* a new node is never a page that holds a live node in the cache, the WAL
\* or the data file: in a new database, after a reopen that follows a
\* checkpoint, and after a reopen that follows a kill that left committed
\* pages in the WAL only.
C34_AllocationFreshness ==
    [][(\E d \in NodeImages : FreshNode(d) \/ FreshRoot(d))
          => NextAvailablePage(page_GC, last_page).page \notin LivePages]_vars

----------------------------------------------------------------------------
(* Part XVI: the release of the writer lock *)

\* C36: the writer lock is always released.  Every write transaction that
\* acquired the writer lock releases it in the end on every exit path, also
\* when the commit or the rollback of its __exit__ fails, so that no later
\* reader or writer waits forever.
C36_LockReleased == (lock = "writer") ~> (lock = "free")

----------------------------------------------------------------------------
(* Part XVII: flush *)

\* what holds when flush has returned: the cache holds nothing, the WAL has
\* no committed and no uncommitted frame, and the data file holds the image
\* of every node in cached
HasDrained(C, W, file, cached) ==
    /\ C.data = <<>>
    /\ W.committed = <<>>
    /\ W.not_committed = <<>>
    /\ \A n \in cached :
          /\ ReadPageData(file, n[1]).raised = "none"
          /\ ReadPageData(file, n[1]).data = n[2]

\* C31: flush terminates and drains everything.  A call of flush by a thread
\* returns in the end, the second acquire of the writer lock inside
\* perform_checkpoint included, with every kind of cache; it does not leave
\* by an exception, and when it has returned the cache is empty, the
\* reopened WAL has no committed and no uncommitted frame and the data file
\* holds the image of every node that was cached.
C31_FlushDrains ==
    /\ \A t \in Users : (pc[t] = "flushing") ~> (pc[t] = "idle")
    /\ [][\A t \in Users :
            (\E exc \in BOOLEAN : FlushExit(t, exc))
               => /\ pc[t] = "leaving"
                  /\ HasDrained(cache', wal', db', exitLog.wrote)]_vars

====
